---- MODULE Spec2Model ----
(***************************************************************************)
(* Offline data cache and synchronisation subsystem of the field-survey    *)
(* application: the Interview Record Store, the Sync Queue and the stored  *)
(* surveys (OfflineStorageService), the all-ACs-for-state cache, the       *)
(* polling-groups cache and the bulk provisioning orchestrator             *)
(* (OfflineDataCacheService.downloadDependentDataForSurveys).               *)
(*                                                                         *)
(* The key-value store (AsyncStorage) is an external collaborator: one     *)
(* variable per storage key.  A storage call either succeeds or throws;    *)
(* the outcome of each call of a handler is an input of its action.        *)
(***************************************************************************)
EXTENDS Integers, Sequences, FiniteSets, TLC

VARIABLES
    store,          \* AsyncStorage key 'offline_interviews': [has, list]
    last,           \* the last completed call of the Interview Record Store
    sv,             \* the saveOfflineInterview calls in flight, per caller
    acCache,        \* AsyncStorage key 'offline_all_acs_for_state'
    acLast,         \* the last completed call of the all-ACs cache
    isDownloading,  \* OfflineDataCacheService.isDownloading
    run,            \* the downloadDependentDataForSurveys calls, per caller
    pgCache,        \* AsyncStorage key 'offline_polling_groups', in key order
    pgLast,         \* the last completed call of the polling-groups cache
    syncQueue,      \* AsyncStorage key 'sync_queue': [has, list]
    qClock,         \* the number of SyncQueueItems created so far
    qLast,          \* the last completed call of the Sync Queue
    qp,             \* the Sync Queue calls in flight, per caller
    offlineSurveys, \* AsyncStorage key 'offline_surveys': [has, list]
    surveysLast,    \* the last completed saveSurveys / getSurveys call
    psCache,        \* AsyncStorage key 'offline_polling_stations', in key order
    psLast,         \* the last completed call of the polling-stations cache
    isDownloadingDependentData, \* OfflineStorageService's flag of that name
    sc,             \* the saveSurveys calls in flight, per caller
    keys,           \* the other AsyncStorage keys: TRUE when a value is stored
    verificationForm, \* the state of that name of the quality-verification form
    interviewProp,  \* the prop 'interview' of the form
    submitted       \* what handleSubmit has done: the data handed to onSubmit

storeVars == <<store, last>>
raceVars == <<sv>>
acVars == <<acCache, acLast>>
provVars == <<isDownloading, run>>
pgVars == <<pgCache, pgLast>>
queueVars == <<syncQueue, qClock, qLast, qp>>
surveyVars == <<offlineSurveys, surveysLast>>
psVars == <<psCache, psLast>>
saveVars == <<isDownloadingDependentData, sc>>
keyVars == <<keys>>
formVars == <<verificationForm, interviewProp, submitted>>
vars ==
    <<store, last, sv, acCache, acLast, isDownloading, run, pgCache, pgLast,
      syncQueue, qClock, qLast, qp, offlineSurveys, surveysLast,
      psCache, psLast, isDownloadingDependentData, sc, keys,
      verificationForm, interviewProp, submitted>>

(***************************************************************************)
(* Bounds of the model.                                                    *)
(***************************************************************************)
MaxInit == 2
MaxAttempts == 1
MaxQueued == 3
MaxSurveys == 2

(***************************************************************************)
(* Program constants.                                                      *)
(***************************************************************************)
\* "if (interviewSize > 2000000)": the per-record corruption threshold
CorruptSize == 2000000

\* interview ids ("offline_<timestamp>_<random>"); NoId is a missing id
Ids == {1, 2}
NoId == 0
Status == {"pending", "syncing", "synced", "failed"}
NoStatus == "none"
\* Serialized sizes of a record (survey body excluded): a small record, one
\* exactly at the threshold and one just above it.
Sizes == {1000, CorruptSize, CorruptSize + 1}

(***************************************************************************)
(* OfflineInterview as it sits in the stored array.  obj = FALSE is an     *)
(* array element that is not an object (null, a number, a string).         *)
(***************************************************************************)
OfflineInterview(i, st, sz, su, n, e, t) ==
    [obj |-> TRUE, id |-> i, status |-> st, size |-> sz, survey |-> su,
     syncAttempts |-> n, error |-> e, lastSyncAttempt |-> t]

NonObject ==
    [obj |-> FALSE, id |-> NoId, status |-> NoStatus, size |-> 1000,
     survey |-> "null", syncAttempts |-> 0, error |-> "none",
     lastSyncAttempt |-> FALSE]

\* The key is absent until the first write.
NoData == [has |-> FALSE, list |-> <<>>]
Data(l) == [has |-> TRUE, list |-> l]

(***************************************************************************)
(* Outcomes of the storage calls of one handler.                           *)
(*   read      getItem of getOfflineInterviews                             *)
(*   remove    removeItem in its 'Row too big' handler                     *)
(*   writeBack setItem of the cleaned collection                           *)
(*   read2     getItem of the nested getOfflineInterviews of               *)
(*             updateInterviewStatus -> saveOfflineInterview               *)
(*   write     the handler's final setItem                                 *)
(***************************************************************************)
Outcome == {"ok", "rowTooBig", "other"}
NoFault ==
    [read |-> "ok", remove |-> TRUE, writeBack |-> TRUE, read2 |-> "ok",
     write |-> "ok"]

(***************************************************************************)
(* getOfflineInterviews: the filter of corrupted entries.                  *)
(***************************************************************************)
IsValidInterviewNoSize(interview) ==
    /\ interview.obj
    /\ interview.id # NoId

IsValidInterview(interview) ==
    /\ interview.obj                        \* !interview || typeof !== 'object'
    /\ interview.id # NoId                  \* !interview.id
    /\ ~(interview.size > CorruptSize)      \* interviewSize > 2000000

ValidInterviews(interviews) == SelectSeq(interviews, IsValidInterview)

CleanedDataUnfiltered(interviews, validInterviews) == interviews

\* what the self-healing write stores
CleanedData(interviews, validInterviews) == validInterviews

RemovedNothing(s) == s

\* AsyncStorage.removeItem(STORAGE_KEYS.OFFLINE_INTERVIEWS)
Removed(s) == NoData

\* [ret: the list returned, st: the store afterwards, wb: a write-back was issued]
getOfflineInterviews(s, rd, f) ==
    IF rd = "rowTooBig"
    THEN [ret |-> <<>>, st |-> IF f.remove THEN Removed(s) ELSE s, wb |-> FALSE]
    ELSE IF rd = "other"
    THEN [ret |-> <<>>, st |-> s, wb |-> FALSE]
    ELSE IF ~s.has
    THEN [ret |-> <<>>, st |-> s, wb |-> FALSE]
    ELSE LET interviews == s.list
             validInterviews == ValidInterviews(interviews)
         IN  IF Len(validInterviews) < Len(interviews)
             THEN [ret |-> validInterviews,
                   st |-> IF f.writeBack
                          THEN Data(CleanedData(interviews, validInterviews))
                          ELSE s,
                   wb |-> TRUE]
             ELSE [ret |-> validInterviews, st |-> s, wb |-> FALSE]

\* interviews.findIndex(i => i.id === id): 0 when there is none
findIndex(interviews, id) ==
    IF \E k \in 1..Len(interviews) : interviews[k].id = id
    THEN CHOOSE k \in 1..Len(interviews) :
            /\ interviews[k].id = id
            /\ \A j \in 1..(k - 1) : interviews[j].id # id
    ELSE 0

(***************************************************************************)
(* saveOfflineInterview: strip the survey body, upsert by id, write the    *)
(* whole array.  [st, out, wb]                                             *)
(***************************************************************************)
interviewAsGiven(interview) == interview

\* "{...interview, survey: null, ...}"
interviewToSave(interview) == [interview EXCEPT !.survey = "null"]

Upsert(interviews, interview) ==
    LET existingIndex == findIndex(interviews, interview.id)
    IN  IF existingIndex > 0
        THEN [interviews EXCEPT ![existingIndex] = interviewToSave(interview)]
        ELSE Append(interviews,
                    [interviewToSave(interview) EXCEPT
                        !.status = IF @ = NoStatus THEN "pending" ELSE @])

SaveErrorOriginal(w) == "error"

\* the catch block: 'Row too big' becomes the error 'Interview data too
\* large to save. Please sync existing interviews first.' ("tooLarge"), any
\* other error is rethrown as it is ("error")
SaveError(w) == IF w = "rowTooBig" THEN "tooLarge" ELSE "error"

saveOfflineInterview(s, interview, rd, f) ==
    LET g == getOfflineInterviews(s, rd, f)
        interviews == Upsert(g.ret, interview)
    IN  IF f.write = "ok"
        THEN [st |-> Data(interviews), out |-> "ok", wb |-> g.wb]
        ELSE [st |-> g.st, out |-> SaveError(f.write), wb |-> g.wb]

(***************************************************************************)
(* updateInterviewStatus                                                   *)
(***************************************************************************)
\* the status written for a request to move from 'from' to 'to'
NewStatus(from, to) == to

syncAttemptsCountedAlways(interview, error) == interview.syncAttempts + 1

\* "if (error) { ...; interview.syncAttempts = (interview.syncAttempts || 0) + 1 }"
syncAttemptsAfter(interview, error) ==
    IF error # "none" THEN interview.syncAttempts + 1
    ELSE interview.syncAttempts

updateInterviewStatus(s, interviewId, status, error, f) ==
    LET g == getOfflineInterviews(s, f.read, f)
        k == findIndex(g.ret, interviewId)
    IN  IF k = 0
        THEN [st |-> g.st, out |-> "ok", wb |-> g.wb]
        ELSE LET interview == g.ret[k]
                 updated ==
                    [interview EXCEPT
                        !.status = NewStatus(interview.status, status),
                        !.lastSyncAttempt = TRUE,
                        !.error = IF error # "none" THEN error ELSE @,
                        !.syncAttempts = syncAttemptsAfter(interview, error)]
                 r == saveOfflineInterview(g.st, updated, f.read2, f)
             IN  [st |-> r.st, out |-> r.out, wb |-> g.wb \/ r.wb]

(***************************************************************************)
(* deleteSyncedInterview                                                   *)
(***************************************************************************)
deleteSyncedInterview(s, interviewId, f) ==
    LET g == getOfflineInterviews(s, f.read, f)
        filtered == SelectSeq(g.ret, LAMBDA i : i.id # interviewId)
    IN  IF f.write = "ok"
        THEN [st |-> Data(filtered), out |-> "ok", wb |-> g.wb]
        ELSE [st |-> g.st, out |-> "error", wb |-> g.wb]

(***************************************************************************)
(* getOfflineInterviewById: <<>> stands for null                           *)
(***************************************************************************)
getOfflineInterviewById(s, interviewId, f) ==
    LET g == getOfflineInterviews(s, f.read, f)
        k == findIndex(g.ret, interviewId)
    IN  [st |-> g.st, wb |-> g.wb,
         ret |-> IF k = 0 THEN <<>> ELSE <<g.ret[k]>>]

(***************************************************************************)
(* getPendingInterviews                                                    *)
(***************************************************************************)
IsPendingNoFailed(i) == i.status = NoStatus \/ i.status = "pending"

\* !status || status === 'pending' || status === 'failed'
IsPending(i) ==
    i.status = NoStatus \/ i.status = "pending" \/ i.status = "failed"

getPendingInterviews(s, f) ==
    LET g == getOfflineInterviews(s, f.read, f)
    IN  [st |-> g.st, wb |-> g.wb, ret |-> SelectSeq(g.ret, IsPending)]

(***************************************************************************)
(* Inputs of the Interview Record Store.                                   *)
(***************************************************************************)
\* what the capture UI hands to saveOfflineInterview
SaveInputs ==
    {OfflineInterview(i, st, sz, su, 0, "none", FALSE) :
        i \in Ids, st \in Status \cup {NoStatus},
        sz \in {1000, CorruptSize + 1}, su \in {"null", "body"}}

\* the inputs of the runs in which storage calls fail
FaultSaveInputs ==
    {x \in SaveInputs :
        x.status = "pending" /\ x.survey = "body" /\ x.size = 1000}
FaultStatus == {"syncing", "failed"}

\* what an earlier run of the application (or a damaged store) may have
\* left under the key
InitEntries ==
    {NonObject} \cup
    {OfflineInterview(i, st, sz, "null", 0, "none", FALSE) :
        i \in Ids \cup {NoId}, st \in {"pending", NoStatus}, sz \in Sizes}

SeqsUpTo(S, n) == UNION {[1..k -> S] : k \in 0..n}

NoDuplicateIds(l) ==
    \A j, k \in 1..Len(l) : (j # k /\ l[j].id # NoId) => l[j].id # l[k].id

InitLists == {l \in SeqsUpTo(InitEntries, MaxInit) : NoDuplicateIds(l)}

\* the last call.  rep: the call before it was a getOfflineInterviews as
\* well; healed: and that one wrote a cleaned collection back; rm: its
\* removeItem, if any, succeeded; n0: the number of entries stored before
\* it; su: the survey field of the record handed to saveOfflineInterview;
\* err: the error handed to updateInterviewStatus; inFlight: the id was
\* stored, and a saveOfflineInterview of the id had read the collection and
\* not yet written it, when the call was made
NoCall ==
    [op |-> "init", id |-> NoId, status |-> NoStatus, rd |-> "ok",
     wr |-> "ok", out |-> "ok", wb |-> FALSE, ret |-> <<>>, rep |-> FALSE,
     healed |-> FALSE, rm |-> TRUE, n0 |-> 0, su |-> "null", err |-> "none",
     inFlight |-> FALSE]

Called(op, id, status, f, out, wb, ret) ==
    [op |-> op, id |-> id, status |-> status,
     rd |-> IF f.read # "ok" THEN f.read ELSE f.read2, wr |-> f.write,
     out |-> out, wb |-> wb, ret |-> ret,
     rep |-> op = "getAll" /\ last.op = "getAll",
     healed |-> op = "getAll" /\ last.op = "getAll" /\ last.wb,
     rm |-> f.remove, n0 |-> Len(store.list), su |-> "null", err |-> "none",
     inFlight |-> FALSE]

StoreInit ==
    /\ store \in {NoData} \cup {Data(l) : l \in InitLists}
    /\ last = NoCall

(***************************************************************************)
(* The handlers, each executed from call to return (calls made one after   *)
(* another).  f gives the outcome of each storage call.                    *)
(***************************************************************************)
SaveOfflineInterview(f, inputs) ==
    \E x \in inputs :
        LET r == saveOfflineInterview(store, x, f.read, f)
        IN  /\ store' = r.st
            /\ last' = [Called("save", x.id, x.status, f, r.out, r.wb, <<>>)
                           EXCEPT !.su = x.survey]

GetOfflineInterviews(f) ==
    LET g == getOfflineInterviews(store, f.read, f)
    IN  /\ store' = g.st
        /\ last' = Called("getAll", NoId, NoStatus, f, "ok", g.wb, g.ret)

GetOfflineInterviewById(f) ==
    \E id \in Ids :
        LET g == getOfflineInterviewById(store, id, f)
        IN  /\ store' = g.st
            /\ last' = Called("getById", id, NoStatus, f, "ok", g.wb, g.ret)

GetPendingInterviews(f) ==
    LET g == getPendingInterviews(store, f)
    IN  /\ store' = g.st
        /\ last' = Called("getPending", NoId, NoStatus, f, "ok", g.wb, g.ret)

UpdateInterviewStatus(f, statuses) ==
    \E id \in Ids, status \in statuses, error \in {"none", "err"} :
        /\ error # "none" =>
              \A k \in 1..Len(store.list) :
                  store.list[k].syncAttempts < MaxAttempts
        /\ LET r == updateInterviewStatus(store, id, status, error, f)
           IN  /\ store' = r.st
               /\ last' = [Called("update", id, status, f, r.out, r.wb, <<>>)
                              EXCEPT !.err = error]

DeleteSyncedInterview(f) ==
    \E id \in Ids :
        LET r == deleteSyncedInterview(store, id, f)
        IN  /\ store' = r.st
            /\ last' = Called("delete", id, NoStatus, f, r.out, r.wb, <<>>)

(***************************************************************************)
(* The storage outcomes a call may meet: at most one storage call of a     *)
(* handler fails.                                                          *)
(***************************************************************************)
ReadFaults ==
    {[NoFault EXCEPT !.read = "rowTooBig"],
     [NoFault EXCEPT !.read = "rowTooBig", !.remove = FALSE],
     [NoFault EXCEPT !.read = "other"],
     [NoFault EXCEPT !.writeBack = FALSE]}
Read2Faults ==
    {[NoFault EXCEPT !.read2 = "rowTooBig"], [NoFault EXCEPT !.read2 = "other"]}
WriteFaults ==
    {[NoFault EXCEPT !.write = "rowTooBig"], [NoFault EXCEPT !.write = "other"]}

(***************************************************************************)
(* saveOfflineInterview calls that overlap: a call suspends at its getItem, *)
(* at the write-back of getOfflineInterviews and at its setItem; the code   *)
(* between two awaits runs without interruption.  Caller p saves under id   *)
(* p.                                                                       *)
(***************************************************************************)
Savers == Ids

RaceInputs(p) ==
    {x \in SaveInputs :
        x.id = p /\ x.size = 1000 /\ x.survey = "body"
        /\ x.status \in {"pending", NoStatus}}

NotSaving == [pc |-> "idle", x |-> NonObject, interviews |-> <<>>]

\* the call starts and issues getItem
SaveStart(p) ==
    /\ sv[p].pc = "idle"
    /\ \E x \in RaceInputs(p) :
          sv' = [sv EXCEPT ![p] = [pc |-> "read", x |-> x, interviews |-> <<>>]]
    /\ UNCHANGED store

\* getItem resolves; the entries are filtered
SaveRead(p) ==
    /\ sv[p].pc = "read"
    /\ LET interviews == store.list
           validInterviews == ValidInterviews(interviews)
       IN  sv' = [sv EXCEPT
                    ![p].interviews = validInterviews,
                    ![p].pc = IF store.has
                                 /\ Len(validInterviews) < Len(interviews)
                              THEN "writeBack" ELSE "write"]
    /\ UNCHANGED store

\* the setItem of the cleaned collection resolves
SaveWriteBack(p) ==
    /\ sv[p].pc = "writeBack"
    /\ store' = Data(sv[p].interviews)
    /\ sv' = [sv EXCEPT ![p].pc = "write"]

\* the upsert into the list this call read, and its setItem
SaveWrite(p) ==
    /\ sv[p].pc = "write"
    /\ store' = Data(Upsert(sv[p].interviews, sv[p].x))
    /\ sv' = [sv EXCEPT ![p].pc = "done"]

\* the call has read the collection and not yet written it
HasRead(p) == sv[p].pc \in {"writeBack", "write"}

\* a deleteSyncedInterview that runs from call to return while the saves
\* are suspended
DeleteDuringSave ==
    /\ \E id \in Ids :
          LET r == deleteSyncedInterview(store, id, NoFault)
          IN  /\ store' = r.st
              /\ last' = [Called("delete", id, NoStatus, NoFault, r.out, r.wb,
                                 <<>>)
                             EXCEPT !.inFlight =
                                       /\ HasRead(id)
                                       /\ findIndex(ValidInterviews(store.list),
                                                    id) > 0]
    /\ UNCHANGED sv

RaceInit ==
    /\ store \in {NoData} \cup {Data(l) : l \in {m \in InitLists : Len(m) <= 1}}
    /\ last = NoCall
    /\ sv = [p \in Savers |-> NotSaving]

(***************************************************************************)
(* The all-ACs-for-state cache.  A list of ACs is modelled by its length.   *)
(***************************************************************************)
\* "const minExpectedACs = state === 'West Bengal' ? 200 : 50"
MinExpectedWestBengal == 200
MinExpectedOther == 50

States == {"West Bengal", "Bihar", "Goa"}

NoEntry == [kind |-> "none", n |-> 0]       \* no entry for the state
NoACs == [kind |-> "noacs", n |-> 0]        \* an entry without an acs list
ACList(n) == [kind |-> "list", n |-> n]     \* {acs: [n items], cachedAt}

ACCounts ==
    {0, 1, MinExpectedOther - 1, MinExpectedOther, MinExpectedWestBengal - 1,
     MinExpectedWestBengal, 294}

\* the stored value: unparsable (JSON.parse throws), or a map by state
Unparsable == [parses |-> FALSE, states |-> [st \in States |-> NoEntry]]
ACData(m) == [parses |-> TRUE, states |-> m]

\* getAllACsForAllStates: {} when the key is unreadable
getAllACsForAllStates(c) ==
    IF c.parses THEN c.states ELSE [st \in States |-> NoEntry]

minExpectedACsSameFloor(state) == MinExpectedOther

minExpectedACs(state) ==
    IF state = "West Bengal" THEN MinExpectedWestBengal ELSE MinExpectedOther

clearedACsNothing(allACsData, state) == allACsData

\* delete allACsData[state]
clearedACs(allACsData, state) == [allACsData EXCEPT ![state] = NoEntry]

\* the stored value after clearACsForState
clearACsForState(c, state) ==
    ACData(clearedACs(getAllACsForAllStates(c), state))

\* the stored value after saveAllACsForState
saveAllACsForState(c, state, n) ==
    ACData([getAllACsForAllStates(c) EXCEPT ![state] = ACList(n)])

\* [ret: the length of the list returned, st: the stored value afterwards]
getAllACsForState(c, state) ==
    LET stateData == getAllACsForAllStates(c)[state]
    IN  IF stateData.kind = "list"
        THEN IF stateData.n >= minExpectedACs(state)
             THEN [ret |-> stateData.n, st |-> c]
             ELSE [ret |-> 0, st |-> clearACsForState(c, state)]
        ELSE [ret |-> 0, st |-> c]

\* the last call: was is the entry of the state before it
NoACCall == [op |-> "init", state |-> "West Bengal", ret |-> 0, was |-> NoEntry]
ACCalled(op, state, ret) ==
    [op |-> op, state |-> state, ret |-> ret,
     was |-> getAllACsForAllStates(acCache)[state]]

SaveAllACsForState ==
    \E state \in States, n \in ACCounts :
        /\ acCache' = saveAllACsForState(acCache, state, n)
        /\ acLast' = ACCalled("save", state, 0)

GetAllACsForState ==
    \E state \in States :
        LET r == getAllACsForState(acCache, state)
        IN  /\ acCache' = r.st
            /\ acLast' = ACCalled("get", state, r.ret)

ClearACsForState ==
    \E state \in States :
        /\ acCache' = clearACsForState(acCache, state)
        /\ acLast' = ACCalled("clear", state, 0)

ACInit ==
    /\ acCache \in
          {Unparsable} \cup
          {ACData(m) :
              m \in [States -> {NoEntry, NoACs} \cup {ACList(n) : n \in ACCounts}]}
    /\ acLast = NoACCall

EmptyACCache == ACData([st \in States |-> NoEntry])

(***************************************************************************)
(* downloadDependentDataForSurveys.  A call runs without interruption up   *)
(* to its first await and between two awaits.  A remote fetch and the      *)
(* cache save of its result are one step, so are the load of the bundled   *)
(* ACs and their save.  run[p] is the call of caller p: its position, its  *)
(* input, its loop counters, and as history the calls it has made (eff)    *)
(* and how it settled (out).                                               *)
(***************************************************************************)
\* "allCachedACs.slice(0, 100)" and "groups.slice(0, 10)"
ACLimit == 100
GroupLimit == 10
\* "if ((i + 1) % 10 === 0 && ...)": a delay after every tenth AC
DelayEvery == 10

Callers == {1, 2}

Survey(id, cati, st) == [id |-> id, cati |-> cati, state |-> st]

\* the survey lists handed to the orchestrator
SurveySets ==
    {<<Survey(1, FALSE, "West Bengal")>>,
     <<Survey(1, TRUE, "none")>>,
     <<Survey(1, FALSE, "Bihar"), Survey(2, TRUE, "West Bengal")>>,
     <<Survey(1, TRUE, "none"), Survey(1, TRUE, "none")>>}

\* acs: some survey carries an assigned AC; bad: an element on which the
\* collection loop throws (null)
ProvInputs ==
    {[surveys |-> ss, acs |-> a, bad |-> FALSE] :
        ss \in SurveySets, a \in BOOLEAN}
    \cup {[surveys |-> <<Survey(1, FALSE, "none")>>, acs |-> TRUE, bad |-> TRUE]}

\* the lengths of the list the bundled dataset may hold for a state, and
\* the numbers of groups an AC may have
BundledCounts == {MinExpectedOther + 10, 294}
GroupCounts == {0, 3, GroupLimit + 2}
RemoteOutcome == {"ok", "fail", "throw"}

\* "states.size > 0 ? Array.from(states)[0] : 'West Bengal'"
targetState(surveys) ==
    IF \E k \in 1..Len(surveys) : surveys[k].state # "none"
    THEN surveys[CHOOSE k \in 1..Len(surveys) :
                    /\ surveys[k].state # "none"
                    /\ \A j \in 1..(k - 1) : surveys[j].state = "none"].state
    ELSE "West Bengal"

\* surveyIds: a Set, in insertion order
RECURSIVE surveyIds(_)
surveyIds(surveys) ==
    IF surveys = <<>> THEN <<>>
    ELSE LET front == surveyIds(SubSeq(surveys, 1, Len(surveys) - 1))
             id == surveys[Len(surveys)].id
         IN  IF \E k \in 1..Len(front) : front[k] = id
             THEN front ELSE Append(front, id)

Unsliced(a, b) == a

\* the length of list.slice(0, b) for a list of length a
Min(a, b) == IF a < b THEN a ELSE b

NoInput == [surveys |-> <<>>, acs |-> FALSE, bad |-> FALSE]

Idle ==
    [pc |-> "idle", inp |-> NoInput,
     n |-> 0, i |-> 0, ng |-> 0, j |-> 0, eff |-> {}, out |-> "none"]

InFlight(p) == run[p].pc # "idle"

GuardOff(flag) == FALSE

\* "if (this.isDownloading) { ...; return; }"
Guard(flag) == flag

FinallyLeaksOnReturn(exit) == exit = "return"

\* isDownloading after a run left the try block by 'exit' ("return" from the
\* empty-assigned-AC branch, "end" of the body, "throw"): the finally block
Finally(exit) == FALSE

\* the run of p ends
Ends(p, exit, eff) ==
    /\ run' = [run EXCEPT
                 ![p].pc = "idle",
                 ![p].inp = NoInput,
                 ![p].n = 0, ![p].i = 0, ![p].ng = 0, ![p].j = 0,
                 ![p].eff = eff,
                 ![p].out = IF exit = "throw" THEN "rejected" ELSE "resolved"]
    /\ isDownloading' = Finally(exit)

\* the call: the guard, and the flag set before the first await.  The
\* history of the settled calls is dropped when a run starts.
Call(p) ==
    /\ run[p].pc = "idle"
    /\ UNCHANGED acCache
    /\ \E inp \in ProvInputs :
          IF Guard(isDownloading)
          THEN /\ run' = [run EXCEPT ![p] = [Idle EXCEPT !.out = "skipped"]]
               /\ UNCHANGED isDownloading
          ELSE /\ run' = [q \in Callers |->
                            IF q = p
                            THEN [Idle EXCEPT !.inp = inp, !.pc = "importApi"]
                            ELSE IF InFlight(q) THEN run[q] ELSE Idle]
               /\ isDownloading' = TRUE

\* await import('./api'), then the collection of ACs, states and survey ids
ImportApi(p) ==
    /\ run[p].pc = "importApi"
    /\ UNCHANGED acCache
    /\ \E loaded \in BOOLEAN :
          IF ~loaded \/ run[p].inp.bad
          THEN Ends(p, "throw", run[p].eff)
          ELSE /\ run' = [run EXCEPT ![p].pc = "bundled"]
               /\ UNCHANGED isDownloading

\* after the bundled ACs: the empty-assigned-AC branch, or the quotas
AfterBundled(p, eff) ==
    /\ run' = [run EXCEPT
                 ![p].eff = eff,
                 ![p].pc = IF run[p].inp.acs THEN "quota" ELSE "readACs",
                 ![p].i = IF run[p].inp.acs THEN 1 ELSE 0]
    /\ UNCHANGED isDownloading

\* bundledDataService.getAllACsForState(state) and saveAllACsForState
BundledACs(p) ==
    /\ run[p].pc = "bundled"
    /\ LET state == targetState(run[p].inp.surveys)
       IN  \/ \E n \in BundledCounts :
                /\ acCache' = saveAllACsForState(acCache, state, n)
                /\ AfterBundled(p, run[p].eff \cup {"bundledACs", "saveAllACs"})
           \/ /\ UNCHANGED acCache
              /\ AfterBundled(p, run[p].eff \cup {"bundledACs"})

\* this.getAllACsForState(state) in the empty-assigned-AC branch
ReadACs(p) ==
    /\ run[p].pc = "readACs"
    /\ LET r == getAllACsForState(acCache, targetState(run[p].inp.surveys))
           eff == run[p].eff \cup {"readAllACs"}
       IN  /\ acCache' = r.st
           /\ IF r.ret > 0
              THEN /\ run' = [run EXCEPT
                                ![p].pc = "groups", ![p].eff = eff,
                                ![p].n = Min(r.ret, ACLimit), ![p].i = 1]
                   /\ UNCHANGED isDownloading
              ELSE Ends(p, "return", eff)

\* after AC number i of the loop: the delay, the next AC, or the return
AfterAC(p, eff) ==
    LET i == run[p].i
    IN  IF i % DelayEvery = 0 /\ i < run[p].n
        THEN /\ run' = [run EXCEPT ![p].pc = "delay", ![p].eff = eff,
                                   ![p].ng = 0, ![p].j = 0]
             /\ UNCHANGED isDownloading
        ELSE IF i < run[p].n
        THEN /\ run' = [run EXCEPT
                          ![p].pc = "groups", ![p].eff = eff, ![p].i = i + 1,
                          ![p].ng = 0, ![p].j = 0]
             /\ UNCHANGED isDownloading
        ELSE Ends(p, "return", eff)

AbortsRunOnThrow(res) == res = "throw"

\* whether the failure 'res' of one item leaves the try block of the run:
\* each item has its own try/catch, which logs and goes on
AbortsRun(res) == FALSE

\* apiService.getGroupsByAC(state, AC i) and savePollingGroups
Groups(p) ==
    /\ run[p].pc = "groups"
    /\ UNCHANGED acCache
    /\ \E res \in RemoteOutcome, g \in GroupCounts :
          LET eff == run[p].eff \cup {"remoteGroups"}
          IN  IF AbortsRun(res) THEN Ends(p, "throw", eff)
              ELSE IF res = "ok"
              THEN IF g > 0
                   THEN /\ run' = [run EXCEPT
                                     ![p].pc = "stations",
                                     ![p].eff = eff \cup {"saveGroups"},
                                     ![p].ng = Min(g, GroupLimit), ![p].j = 1]
                        /\ UNCHANGED isDownloading
                   ELSE AfterAC(p, eff \cup {"saveGroups"})
              ELSE AfterAC(p, eff)

\* apiService.getPollingStationsByGroup(state, AC i, group j) and
\* savePollingStations
Stations(p) ==
    /\ run[p].pc = "stations"
    /\ UNCHANGED acCache
    /\ \E res \in RemoteOutcome :
          LET eff == run[p].eff \cup {"remoteStations"}
                        \cup (IF res = "ok" THEN {"saveStations"} ELSE {})
          IN  IF AbortsRun(res) THEN Ends(p, "throw", eff)
              ELSE IF run[p].j < run[p].ng
              THEN /\ run' = [run EXCEPT ![p].eff = eff, ![p].j = @ + 1]
                   /\ UNCHANGED isDownloading
              ELSE AfterAC(p, eff)

\* the 200 ms delay
Delay(p) ==
    /\ run[p].pc = "delay"
    /\ run' = [run EXCEPT ![p].pc = "groups", ![p].i = @ + 1]
    /\ UNCHANGED <<isDownloading, acCache>>

\* apiService.getGenderResponseCounts(surveyId i) and saveGenderQuotas
Quota(p) ==
    /\ run[p].pc = "quota"
    /\ UNCHANGED acCache
    /\ \E res \in RemoteOutcome :
          LET eff == run[p].eff \cup {"remoteQuota"}
                        \cup (IF res = "ok" THEN {"saveQuota"} ELSE {})
          IN  IF AbortsRun(res) THEN Ends(p, "throw", eff)
              ELSE /\ UNCHANGED isDownloading
                   /\ IF run[p].i < Len(surveyIds(run[p].inp.surveys))
                      THEN run' = [run EXCEPT ![p].eff = eff, ![p].i = @ + 1]
                      ELSE run' = [run EXCEPT ![p].eff = eff, ![p].i = 1,
                                              ![p].pc = "cati"]

\* the loop over the surveys: apiService.getLastCatiSetNumber and
\* saveCatiSetNumber for a survey whose mode is 'cati'
Cati(p) ==
    /\ run[p].pc = "cati"
    /\ UNCHANGED acCache
    /\ \E res \in RemoteOutcome :
          LET survey == run[p].inp.surveys[run[p].i]
              eff == IF survey.cati
                     THEN run[p].eff \cup {"remoteCati"}
                            \cup (IF res = "ok" THEN {"saveCati"} ELSE {})
                     ELSE run[p].eff
          IN  IF survey.cati /\ AbortsRun(res) THEN Ends(p, "throw", eff)
              ELSE /\ UNCHANGED isDownloading
                   /\ IF run[p].i < Len(run[p].inp.surveys)
                      THEN run' = [run EXCEPT ![p].eff = eff, ![p].i = @ + 1]
                      ELSE run' = [run EXCEPT ![p].eff = eff, ![p].pc = "user"]

\* apiService.getCurrentUser(true) and saveUserData; the end of the body
User(p) ==
    /\ run[p].pc = "user"
    /\ UNCHANGED acCache
    /\ \E res \in RemoteOutcome :
          Ends(p, IF AbortsRun(res) THEN "throw" ELSE "end",
               run[p].eff \cup {"remoteUser"}
                  \cup (IF res = "ok" THEN {"saveUser"} ELSE {}))

RunStep(p) ==
    \/ ImportApi(p)
    \/ BundledACs(p)
    \/ ReadACs(p)
    \/ Groups(p)
    \/ Stations(p)
    \/ Delay(p)
    \/ Quota(p)
    \/ Cati(p)
    \/ User(p)

ProvIdle ==
    /\ isDownloading = FALSE
    /\ run = [p \in Callers |-> Idle]

(***************************************************************************)
(* The polling-groups cache and its lookup.  A name is a sequence of       *)
(* characters: letters in both cases, digits, the blank, and "P" for a     *)
(* parenthetical such as "(SC)".  The cache is the sequence of its entries *)
(* in key order (Object.entries).                                          *)
(***************************************************************************)
MaxEntries == 2

Blank == " "
Paren == "P"

\* toLowerCase
toLowerCase(s) ==
    [k \in 1..Len(s) |->
        CASE s[k] = "A" -> "a" [] s[k] = "B" -> "b" [] s[k] = "C" -> "c"
          [] s[k] = "D" -> "d" [] OTHER -> s[k]]

\* the characters of s at the positions I, in order
RECURSIVE CharsAt(_, _)
CharsAt(s, I) ==
    IF I = {} THEN <<>>
    ELSE LET m == CHOOSE k \in I : \A j \in I : j <= k
         IN  Append(CharsAt(s, I \ {m}), s[m])

\* replace(/\s*\([^)]*\)\s*/g, ''): every parenthetical goes, with the
\* blanks around it
withoutParentheticals(s) ==
    CharsAt(s,
        {k \in 1..Len(s) :
            /\ s[k] # Paren
            /\ ~(/\ s[k] = Blank
                 /\ \E j \in 1..Len(s) :
                       /\ s[j] = Paren
                       /\ \A i \in 1..Len(s) :
                             ((j < i /\ i < k) \/ (k < i /\ i < j))
                                => s[i] = Blank)})

\* trim
trim(s) ==
    CharsAt(s,
        {k \in 1..Len(s) :
            /\ \E i \in 1..k : s[i] # Blank
            /\ \E j \in k..Len(s) : s[j] # Blank})

\* replace(/\s+/g, ' ')
singleBlanks(s) ==
    CharsAt(s, {k \in 1..Len(s) : ~(s[k] = Blank /\ k > 1 /\ s[k - 1] = Blank)})

\* x.toLowerCase().replace(/\s*\([^)]*\)\s*/g, '').trim().replace(/\s+/g, ' ')
normalizedName(x) ==
    singleBlanks(trim(withoutParentheticals(toLowerCase(x))))

\* a.includes(b)
includes(a, b) ==
    \E i \in 0..(Len(a) - Len(b)) : SubSeq(a, i + 1, i + Len(b)) = b

\* cached === search || cached.includes(search) || search.includes(cached)
matches(cached, search) ==
    cached = search \/ includes(cached, search) \/ includes(search, cached)

\* /^\d+$/.test(x)
isACCode(x) == Len(x) > 0 /\ \A k \in 1..Len(x) : x[k] \in {"2", "3"}

\* normalizeACName: the table of known spellings ("c d" for 'Cooch Behar
\* Uttar', "CD P" for 'COOCHBEHAR UTTAR (SC)'), by exact and then by
\* case-insensitive match
CoochBeharUttar == <<"C", Blank, "d">>
COOCHBEHAR_UTTAR_SC == <<"C", "D", Blank, Paren>>
acNameMappings ==
    {<<CoochBeharUttar, COOCHBEHAR_UTTAR_SC>>,
     <<<<"C", Blank, "D">>, COOCHBEHAR_UTTAR_SC>>}

normalizeACName(acName) ==
    IF \E m \in acNameMappings : m[1] = acName
    THEN (CHOOSE m \in acNameMappings : m[1] = acName)[2]
    ELSE IF \E m \in acNameMappings :
               toLowerCase(m[1]) = toLowerCase(trim(acName))
    THEN (CHOOSE m \in acNameMappings :
             toLowerCase(m[1]) = toLowerCase(trim(acName)))[2]
    ELSE acName

\* an entry of the cache: stored under `${state}::${acIdentifier}`;
\* ac_name = <<>> stands for a missing or empty ac_name
PollingGroup(state, acIdentifier, ac_name) ==
    [state |-> state, acIdentifier |-> acIdentifier, ac_name |-> ac_name]

\* the separator of the parts of a cache key
Delim == <<":", ":">>

\* s.startsWith(prefix)
startsWith(s, prefix) ==
    Len(prefix) <= Len(s) /\ SubSeq(s, 1, Len(prefix)) = prefix

\* s.endsWith(suffix)
endsWith(s, suffix) ==
    /\ Len(suffix) <= Len(s)
    /\ SubSeq(s, Len(s) - Len(suffix) + 1, Len(s)) = suffix

\* `${state}::${acIdentifier}`, the state name taken as one character
groupsKey(state, acIdentifier) == <<state>> \o Delim \o acIdentifier

\* the entry e answers the fallback scan for the search name
fallbackMatch(e, normalizedSearchName) ==
    LET normalizedCachedName == normalizedName(e.ac_name)
        normalizedCachedKey == normalizedName(e.acIdentifier)
    IN  \/ e.ac_name # <<>> /\ matches(normalizedCachedName, normalizedSearchName)
        \/ /\ isACCode(e.acIdentifier) /\ e.ac_name # <<>>
           /\ matches(normalizedCachedName, normalizedSearchName)
        \/ matches(normalizedCachedKey, normalizedSearchName)

\* getPollingGroups: the position of the entry returned, 0 for null
getPollingGroups(allGroups, state, acIdentifier) ==
    LET cachedKey(k) == groupsKey(allGroups[k].state, allGroups[k].acIdentifier)
        exact == {k \in 1..Len(allGroups) :
                     cachedKey(k) = groupsKey(state, acIdentifier)}
        found == {k \in 1..Len(allGroups) :
                     /\ startsWith(cachedKey(k), <<state>> \o Delim)
                     /\ fallbackMatch(allGroups[k], normalizedName(acIdentifier))}
    IN  IF exact # {} THEN CHOOSE k \in exact : TRUE
        ELSE IF found # {} THEN CHOOSE k \in found : \A j \in found : k <= j
        ELSE 0

\* savePollingGroups: allGroups[key] = data
savePollingGroups(allGroups, e) ==
    IF \E k \in 1..Len(allGroups) :
          allGroups[k].state = e.state /\ allGroups[k].acIdentifier = e.acIdentifier
    THEN [k \in 1..Len(allGroups) |->
             IF allGroups[k].state = e.state
                /\ allGroups[k].acIdentifier = e.acIdentifier
             THEN e ELSE allGroups[k]]
    ELSE Append(allGroups, e)

\* the states, cache keys, ac_names and search identifiers of the runs:
\* "a b" is an AC name, "A B P" the same name in capitals with a
\* parenthetical suffix, "a  b" with a run of blanks, "a" the name of
\* another AC (as 'Bally' is to 'Ballygunge'), "23" an AC code
PGStates == {"West Bengal", "Bihar"}
ExampleAC == <<"a", Blank, "b">>
ExampleAC_SC == <<"A", Blank, "B", Blank, Paren>>
ExampleACBlanks == <<"a", Blank, Blank, "b">>
OtherAC == <<"A">>
ACCode23 == <<"2", "3">>
PGKeys == {ACCode23, <<"2">>, COOCHBEHAR_UTTAR_SC}
PGNames == {<<>>, ExampleAC_SC, OtherAC, COOCHBEHAR_UTTAR_SC}
PGEntries ==
    {PollingGroup(s, k, n) : s \in PGStates, k \in PGKeys, n \in PGNames}
PGIdentifiers ==
    {ExampleAC, ExampleAC_SC, ExampleACBlanks, ACCode23, CoochBeharUttar,
     COOCHBEHAR_UTTAR_SC, <<"c", "d">>, <<Paren>>, <<>>}

NoPGCall ==
    [op |-> "init", state |-> "West Bengal", acIdentifier |-> <<>>, k |-> 0]

PGIdle ==
    /\ pgCache = <<>>
    /\ pgLast = NoPGCall

SavePollingGroups ==
    \E e \in PGEntries :
        /\ Len(savePollingGroups(pgCache, e)) <= MaxEntries
        /\ pgCache' = savePollingGroups(pgCache, e)
        /\ pgLast' = [op |-> "save", state |-> e.state,
                      acIdentifier |-> e.acIdentifier, k |-> 0]

GetPollingGroups ==
    \E state \in PGStates, acIdentifier \in PGIdentifiers :
        /\ pgLast' = [op |-> "get", state |-> state,
                      acIdentifier |-> acIdentifier,
                      k |-> getPollingGroups(pgCache, state, acIdentifier)]
        /\ UNCHANGED pgCache

(***************************************************************************)
(* The polling-stations cache: one object under one key, its keys          *)
(* `${state}::${acIdentifier}::${groupName}`.  State and group names are   *)
(* sequences of characters here, so that one name can be the end or the    *)
(* beginning of another.                                                   *)
(***************************************************************************)
\* s.replace(pattern, ''): the first occurrence of the pattern goes
replaceFirst(s, pattern) ==
    LET at == {i \in 0..(Len(s) - Len(pattern)) :
                  SubSeq(s, i + 1, i + Len(pattern)) = pattern}
    IN  IF at = {} THEN s
        ELSE LET i == CHOOSE i \in at : \A j \in at : i <= j
             IN  SubSeq(s, 1, i) \o SubSeq(s, i + Len(pattern) + 1, Len(s))

\* `${state}::${acIdentifier}::${groupName}`
stationsKey(state, acIdentifier, groupName) ==
    state \o Delim \o acIdentifier \o Delim \o groupName

\* an entry of the cache with the key it is stored under
PollingStation(state, acIdentifier, groupName, ac_name) ==
    [key |-> stationsKey(state, acIdentifier, groupName), state |-> state,
     acIdentifier |-> acIdentifier, groupName |-> groupName,
     ac_name |-> ac_name]

\* the scope without the test of the group name
inState(cachedKey, state, groupName) ==
    startsWith(cachedKey, state \o Delim)

\* cachedKey.startsWith(`${state}::`) && cachedKey.endsWith(`::${groupName}`)
inScope(cachedKey, state, groupName) ==
    /\ startsWith(cachedKey, state \o Delim)
    /\ endsWith(cachedKey, Delim \o groupName)

\* cachedKey.replace(`${state}::`, '').replace(`::${groupName}`, '')
cachedACIdentifier(cachedKey, state, groupName) ==
    replaceFirst(replaceFirst(cachedKey, state \o Delim), Delim \o groupName)

\* getPollingStations: the position of the entry returned, 0 for null
getPollingStations(allStations, state, acIdentifier, groupName) ==
    LET exact == {k \in 1..Len(allStations) :
                     allStations[k].key =
                        stationsKey(state, acIdentifier, groupName)}
        found == {k \in 1..Len(allStations) :
                     /\ inScope(allStations[k].key, state, groupName)
                     /\ fallbackMatch(
                           [ac_name |-> allStations[k].ac_name,
                            acIdentifier |->
                               cachedACIdentifier(allStations[k].key, state,
                                                  groupName)],
                           normalizedName(acIdentifier))}
    IN  IF exact # {} THEN CHOOSE k \in exact : TRUE
        ELSE IF found # {} THEN CHOOSE k \in found : \A j \in found : k <= j
        ELSE 0

\* savePollingStations: allStations[key] = data
savePollingStations(allStations, e) ==
    IF \E k \in 1..Len(allStations) : allStations[k].key = e.key
    THEN [k \in 1..Len(allStations) |->
             IF allStations[k].key = e.key THEN e ELSE allStations[k]]
    ELSE Append(allStations, e)

\* the names of the runs: the state "B" is the end of the state "W B" (as
\* 'Bengal' is of 'West Bengal'), the group "1" the end of the group "G1"
PSStates == {<<"B">>, <<"W", Blank, "B">>}
PSGroups == {<<"1">>, <<"G", "1">>}
PSKeys == {<<"2">>, OtherAC}
PSNames == {<<>>, ExampleAC_SC}
PSEntries ==
    {PollingStation(s, k, g, n) :
        s \in PSStates, k \in PSKeys, g \in PSGroups, n \in PSNames}
PSIdentifiers == {ExampleAC, <<"2">>, <<"a">>, <<>>}

NoPSCall ==
    [op |-> "init", state |-> <<"B">>, acIdentifier |-> <<>>,
     groupName |-> <<"1">>, k |-> 0]

PSIdle ==
    /\ psCache = <<>>
    /\ psLast = NoPSCall

SavePollingStations ==
    \E e \in PSEntries :
        /\ Len(savePollingStations(psCache, e)) <= MaxEntries
        /\ psCache' = savePollingStations(psCache, e)
        /\ psLast' = [op |-> "save", state |-> e.state,
                      acIdentifier |-> e.acIdentifier,
                      groupName |-> e.groupName, k |-> 0]

GetPollingStations ==
    \E state \in PSStates, acIdentifier \in PSIdentifiers,
       groupName \in PSGroups :
        /\ psLast' = [op |-> "get", state |-> state,
                      acIdentifier |-> acIdentifier, groupName |-> groupName,
                      k |-> getPollingStations(psCache, state, acIdentifier,
                                               groupName)]
        /\ UNCHANGED psCache

(***************************************************************************)
(* The Sync Queue: one array under one key.  An item is created by the     *)
(* caller of addToSyncQueue; its timestamp is the time of its creation.    *)
(***************************************************************************)
OperationType == {"complete", "abandon"}

SyncQueueItem(interviewId, type, timestamp) ==
    [interviewId |-> interviewId, type |-> type, timestamp |-> timestamp]

\* getSyncQueue: "if (!data) return []; return JSON.parse(data)"
getSyncQueue(s) == IF s.has THEN s.list ELSE <<>>

pushedFirst(queue, item) == <<item>> \o queue

\* queue.push(item)
pushed(queue, item) == Append(queue, item)

\* queue.filter(item => item.interviewId !== interviewId)
\* a filter on the 'complete' items of the interview only
filteredComplete(queue, interviewId) ==
    SelectSeq(queue, LAMBDA item :
        ~(item.interviewId = interviewId /\ item.type = "complete"))

filteredQueue(queue, interviewId) ==
    SelectSeq(queue, LAMBDA item : item.interviewId # interviewId)

\* the stored value after each handler, executed from call to return
addToSyncQueue(s, item) == Data(pushed(getSyncQueue(s), item))
removeFromSyncQueue(s, interviewId) ==
    Data(filteredQueue(getSyncQueue(s), interviewId))
clearSyncQueue(s) == NoData

\* the last call: was is what getSyncQueue returned before it
NoItem == SyncQueueItem(NoId, "complete", 0)
NoQueueCall == [op |-> "init", item |-> NoItem, ret |-> <<>>, was |-> <<>>]
QueueCalled(op, item, ret) ==
    [op |-> op, item |-> item, ret |-> ret, was |-> getSyncQueue(syncQueue)]

\* the items the capture UI may create next
NewItems ==
    {SyncQueueItem(id, type, qClock + 1) : id \in Ids, type \in OperationType}

AddToSyncQueue ==
    /\ qClock < MaxQueued
    /\ \E item \in NewItems :
          /\ syncQueue' = addToSyncQueue(syncQueue, item)
          /\ qLast' = QueueCalled("add", item, <<>>)
    /\ qClock' = qClock + 1
    /\ UNCHANGED qp

GetSyncQueue ==
    /\ qLast' = QueueCalled("get", NoItem, getSyncQueue(syncQueue))
    /\ UNCHANGED <<syncQueue, qClock, qp>>

RemoveFromSyncQueue ==
    /\ \E interviewId \in Ids :
          /\ syncQueue' = removeFromSyncQueue(syncQueue, interviewId)
          /\ qLast' = QueueCalled("remove",
                                  SyncQueueItem(interviewId, "complete", 0),
                                  <<>>)
    /\ UNCHANGED <<qClock, qp>>

ClearSyncQueue ==
    /\ syncQueue' = clearSyncQueue(syncQueue)
    /\ qLast' = QueueCalled("clear", NoItem, <<>>)
    /\ UNCHANGED <<qClock, qp>>

(***************************************************************************)
(* Sync Queue calls that overlap: the capture UI adds while the sync       *)
(* driver removes.  A call suspends at the getItem of getSyncQueue and at  *)
(* its setItem.                                                            *)
(***************************************************************************)
QueueCallers == {"capture", "driver"}

NotQueueing == [pc |-> "idle", item |-> NoItem, queue |-> <<>>]

\* addToSyncQueue is called and issues getItem
AddStart ==
    /\ qp["capture"].pc = "idle"
    /\ qClock < MaxQueued
    /\ \E item \in NewItems :
          qp' = [qp EXCEPT !["capture"] =
                    [pc |-> "read", item |-> item, queue |-> <<>>]]
    /\ qClock' = qClock + 1
    /\ UNCHANGED <<syncQueue, qLast>>

\* removeFromSyncQueue is called and issues getItem
RemoveStart ==
    /\ qp["driver"].pc = "idle"
    /\ \E interviewId \in Ids :
          qp' = [qp EXCEPT !["driver"] =
                    [pc |-> "read",
                     item |-> SyncQueueItem(interviewId, "complete", 0),
                     queue |-> <<>>]]
    /\ UNCHANGED <<syncQueue, qClock, qLast>>

\* getItem resolves: "const queue = await this.getSyncQueue()"
QueueRead(p) ==
    /\ qp[p].pc = "read"
    /\ qp' = [qp EXCEPT ![p].queue = getSyncQueue(syncQueue),
                        ![p].pc = "write"]
    /\ UNCHANGED <<syncQueue, qClock, qLast>>

\* queue.push(item) and setItem
AddWrite ==
    /\ qp["capture"].pc = "write"
    /\ syncQueue' = Data(pushed(qp["capture"].queue, qp["capture"].item))
    /\ qLast' = QueueCalled("add", qp["capture"].item, <<>>)
    /\ qp' = [qp EXCEPT !["capture"] = NotQueueing]
    /\ UNCHANGED qClock

\* queue.filter(...) and setItem
RemoveWrite ==
    /\ qp["driver"].pc = "write"
    /\ syncQueue' =
          Data(filteredQueue(qp["driver"].queue, qp["driver"].item.interviewId))
    /\ qLast' = QueueCalled("remove", qp["driver"].item, <<>>)
    /\ qp' = [qp EXCEPT !["driver"] = NotQueueing]
    /\ UNCHANGED qClock

QueueIdle ==
    /\ syncQueue = NoData
    /\ qClock = 0
    /\ qLast = NoQueueCall
    /\ qp = [p \in QueueCallers |-> NotQueueing]

(***************************************************************************)
(* The stored surveys: one array under one key, written wholesale.  A      *)
(* survey is modelled by its id.                                           *)
(***************************************************************************)
SurveyIds == {1, 2, 3}
SurveyLists == SeqsUpTo(SurveyIds, MaxSurveys)

\* surveys after "AsyncStorage.setItem(STORAGE_KEYS.SURVEYS, ...)"
savedSurveysMerged(s, list) == Data(s.list \o list)

savedSurveys(s, list) == Data(list)

\* getSurveys: "if (!data) return []; return JSON.parse(data)"
getSurveys(s) == IF s.has THEN s.list ELSE <<>>

NoSurveysCall == [op |-> "init", list |-> <<>>, ret |-> <<>>, was |-> <<>>]

\* the storage keys that are modelled by their presence only
OtherKeys ==
    {"offline_ac_data", "offline_polling_gps", "offline_gender_quotas",
     "offline_cati_set_numbers", "offline_user_data", "last_sync",
     "survey_download_time"}

KeysIdle == keys = [k \in OtherKeys |-> FALSE]

\* AsyncStorage.setItem(key, ...)
setItem(ks, key) == [ks EXCEPT ![key] = TRUE]

\* saveSurveys(list) without the download of the dependent data
SaveSurveys ==
    \E list \in SurveyLists :
        /\ offlineSurveys' = savedSurveys(offlineSurveys, list)
        /\ keys' = setItem(keys, "survey_download_time")
        /\ surveysLast' = [op |-> "save", list |-> list, ret |-> <<>>,
                           was |-> getSurveys(offlineSurveys)]

GetSurveys ==
    /\ surveysLast' = [op |-> "get", list |-> surveysLast.list,
                       ret |-> getSurveys(offlineSurveys), was |-> getSurveys(offlineSurveys)]
    /\ UNCHANGED offlineSurveys

SurveysIdle ==
    /\ offlineSurveys = NoData
    /\ surveysLast = NoSurveysCall

(***************************************************************************)
(* saveSurveys(surveys, downloadDependentData), await by await.  A call    *)
(* runs without interruption between two awaits: the test of               *)
(* isDownloadingDependentData and its assignment are one step with the     *)
(* end of the second write.  The run of downloadDependentDataForSurveys is *)
(* one step whose outcome is an input: it resolves (a run of its own, or   *)
(* its own guard returned at once) or it throws, as does a failed import.  *)
(* sc[p] is the call of caller p: its position, its arguments, and as      *)
(* history how it settled (out), what became of the provisioning (prov),   *)
(* and whether another call has written the surveys since it did (over).   *)
(***************************************************************************)
SurveyCallers == {"login", "refresh"}

\* the survey lists of the overlapping calls
SaveLists == {<<>>, <<1>>, <<2, 3>>}

NotSavingSurveys ==
    [pc |-> "idle", list |-> <<>>, dl |-> FALSE, out |-> "none",
     prov |-> "none", over |-> FALSE]

SaveIdle ==
    /\ isDownloadingDependentData = FALSE
    /\ sc = [p \in SurveyCallers |-> NotSavingSurveys]

\* the flag when the provisioning has settled
flagLeftSet(flag) == TRUE

\* "finally { this.isDownloadingDependentData = false; }"
flagAfterProvisioning(flag) == FALSE

\* the call of saveSurveys
SaveSurveysStart(p) ==
    /\ sc[p].pc = "idle"
    /\ \E list \in SaveLists, dl \in BOOLEAN :
          sc' = [sc EXCEPT ![p] = [NotSavingSurveys EXCEPT
                                     !.pc = "surveys", !.list = list, !.dl = dl]]
    /\ UNCHANGED <<isDownloadingDependentData, offlineSurveys, keys>>

\* the call of p settles
Settles(p, out, prov) ==
    [sc EXCEPT ![p].pc = "idle", ![p].out = out, ![p].prov = prov]

\* await AsyncStorage.setItem(STORAGE_KEYS.SURVEYS, JSON.stringify(surveys))
WriteSurveys(p) ==
    /\ sc[p].pc = "surveys"
    /\ UNCHANGED <<isDownloadingDependentData, keys>>
    /\ \E ok \in BOOLEAN :
          IF ok
          THEN /\ offlineSurveys' = savedSurveys(offlineSurveys, sc[p].list)
               /\ sc' = [q \in SurveyCallers |->
                           IF q = p THEN [sc[q] EXCEPT !.pc = "time"]
                           ELSE IF sc[q].pc \in {"time", "provisioning"}
                           THEN [sc[q] EXCEPT !.over = TRUE]
                           ELSE sc[q]]
          ELSE /\ sc' = Settles(p, "rejected", "none")
               /\ UNCHANGED offlineSurveys

\* await AsyncStorage.setItem(STORAGE_KEYS.SURVEY_DOWNLOAD_TIME, ...), and
\* what follows it up to the next await
WriteTime(p) ==
    /\ sc[p].pc = "time"
    /\ UNCHANGED offlineSurveys
    /\ \E ok \in BOOLEAN :
          IF ~ok
          THEN /\ sc' = Settles(p, "rejected", "none")
               /\ UNCHANGED <<isDownloadingDependentData, keys>>
          ELSE /\ keys' = setItem(keys, "survey_download_time")
               /\ IF sc[p].dl /\ Len(sc[p].list) > 0
                  THEN IF isDownloadingDependentData
                       THEN /\ sc' = Settles(p, "resolved", "skipped")
                            /\ UNCHANGED isDownloadingDependentData
                       ELSE /\ isDownloadingDependentData' = TRUE
                            /\ sc' = [sc EXCEPT ![p].pc = "provisioning"]
                  ELSE /\ sc' = Settles(p, "resolved", "none")
                       /\ UNCHANGED isDownloadingDependentData

\* await import('./offlineDataCache'), await downloadDependentDataForSurveys,
\* the catch block and the finally block
Provisioning(p) ==
    /\ sc[p].pc = "provisioning"
    /\ UNCHANGED <<offlineSurveys, keys>>
    /\ \E prov \in {"ran", "threw"} :
          sc' = Settles(p, "resolved", prov)
    /\ isDownloadingDependentData' =
          flagAfterProvisioning(isDownloadingDependentData)

(***************************************************************************)
(* The two clearing functions.  AsyncStorage.multiRemove(names) removes    *)
(* the named keys: a variable of the model is emptied when the name of its *)
(* key is among them.  A failed multiRemove removes nothing.               *)
(***************************************************************************)
\* the keys that have a variable of their own
ModelledKeys ==
    {"offline_interviews", "sync_queue", "offline_surveys",
     "offline_all_acs_for_state", "offline_polling_groups",
     "offline_polling_stations"}

AllStorageKeys == ModelledKeys \cup OtherKeys

\* the keys clearAllCache names: STORAGE_KEYS of OfflineDataCacheService
CacheKeys ==
    {"offline_ac_data", "offline_all_acs_for_state", "offline_polling_groups",
     "offline_polling_stations", "offline_polling_gps",
     "offline_gender_quotas", "offline_cati_set_numbers", "offline_user_data"}

\* the keys clearAllOfflineData names: STORAGE_KEYS of OfflineStorageService
OfflineKeys ==
    {"offline_surveys", "offline_interviews", "sync_queue", "last_sync",
     "survey_download_time"}

\* AsyncStorage.multiRemove(names)
multiRemove(names) ==
    /\ store' = IF "offline_interviews" \in names THEN NoData ELSE store
    /\ syncQueue' = IF "sync_queue" \in names THEN NoData ELSE syncQueue
    /\ offlineSurveys' =
          IF "offline_surveys" \in names THEN NoData ELSE offlineSurveys
    /\ acCache' =
          IF "offline_all_acs_for_state" \in names THEN EmptyACCache
          ELSE acCache
    /\ pgCache' = IF "offline_polling_groups" \in names THEN <<>> ELSE pgCache
    /\ psCache' =
          IF "offline_polling_stations" \in names THEN <<>> ELSE psCache
    /\ keys' = [k \in OtherKeys |-> IF k \in names THEN FALSE ELSE keys[k]]

NothingRemoved ==
    UNCHANGED <<store, syncQueue, offlineSurveys, acCache, pgCache, psCache,
                keys>>

\* clearAllCache
ClearAllCache ==
    \E ok \in BOOLEAN : IF ok THEN multiRemove(CacheKeys) ELSE NothingRemoved

\* clearAllOfflineData
ClearAllOfflineData ==
    \E ok \in BOOLEAN : IF ok THEN multiRemove(OfflineKeys) ELSE NothingRemoved

(***************************************************************************)
(* The quality-verification form.  verificationForm holds the answer to    *)
(* each question, '' while unanswered; interview is the response under     *)
(* review (or none), with its mode and the questions whose related         *)
(* response was skipped.                                                   *)
(***************************************************************************)
\* isRejectionOption(questionType, value)
isRejectionOption(questionType, value) ==
    IF value = "" THEN FALSE
    ELSE CASE questionType = "audioStatus" ->
                 value # "1" /\ value # "4" /\ value # "7"
           [] questionType = "gender" -> value = "2" \/ value = "3"
           [] questionType \in
                 {"upcomingElection", "assembly2021", "lokSabha2024", "name",
                  "age"} -> value = "2" \/ value = "4"
           [] OTHER -> FALSE

\* the questions in their order, each with the field of its answer
questionOrder ==
    <<[type |-> "audioStatus", field |-> "audioStatus"],
      [type |-> "gender", field |-> "genderMatching"],
      [type |-> "upcomingElection", field |-> "upcomingElectionsMatching"],
      [type |-> "assembly2021", field |-> "previousElectionsMatching"],
      [type |-> "lokSabha2024", field |-> "previousLoksabhaElectionsMatching"],
      [type |-> "name", field |-> "nameMatching"],
      [type |-> "age", field |-> "ageMatching"]>>

\* hasRejectionOption()
hasRejectionOption(form) ==
    \E k \in 1..Len(questionOrder) :
        /\ form[questionOrder[k].field] # ""
        /\ isRejectionOption(questionOrder[k].type, form[questionOrder[k].field])

\* the position of a question in ['audioStatus', ..., 'age', 'phoneNumber'],
\* from 0
indexOfQuestion(questionType) ==
    IF questionType = "phoneNumber" THEN 7
    ELSE (CHOOSE k \in 1..Len(questionOrder) :
             questionOrder[k].type = questionType) - 1

\* the first question with a rejection option, -1 when there is none
rejectionIndex(form) ==
    IF \E k \in 1..Len(questionOrder) :
          isRejectionOption(questionOrder[k].type, form[questionOrder[k].field])
    THEN (CHOOSE k \in 1..Len(questionOrder) :
             /\ isRejectionOption(questionOrder[k].type,
                                  form[questionOrder[k].field])
             /\ \A j \in 1..(k - 1) :
                   ~isRejectionOption(questionOrder[j].type,
                                      form[questionOrder[j].field])) - 1
    ELSE -1

\* shouldShowVerificationQuestion(questionType)
shouldShowVerificationQuestion(form, iv, questionType) ==
    IF ~iv.present THEN TRUE
    ELSE IF questionType = "phoneNumber" /\ iv.interviewMode = "cati" THEN FALSE
    ELSE IF /\ hasRejectionOption(form)
            /\ rejectionIndex(form) >= 0
            /\ indexOfQuestion(questionType) > rejectionIndex(form)
    THEN FALSE
    ELSE IF /\ questionType = "gender"
            /\ form.audioStatus # "1" /\ form.audioStatus # "7"
    THEN FALSE
    ELSE IF questionType \in
               {"gender", "upcomingElection", "assembly2021", "lokSabha2024",
                "name", "age"}
    THEN questionType \notin iv.skipped
    ELSE TRUE

\* isVerificationFormValid()
isVerificationFormValid(form, iv) ==
    IF ~iv.present THEN FALSE
    ELSE IF form.audioStatus = "" THEN FALSE
    ELSE IF hasRejectionOption(form) THEN TRUE
    ELSE /\ \A k \in 2..Len(questionOrder) :
               ~(/\ shouldShowVerificationQuestion(form, iv, questionOrder[k].type)
                 /\ form[questionOrder[k].field] = "")
         /\ ~(/\ shouldShowVerificationQuestion(form, iv, "phoneNumber")
              /\ form.phoneNumberAsked = "")

\* the status by the answers to the questions shown
statusByQuestions(form, iv) ==
    IF form.audioStatus # "1" /\ form.audioStatus # "4" /\ form.audioStatus # "7"
    THEN "rejected"
    ELSE IF /\ shouldShowVerificationQuestion(form, iv, "gender")
            /\ form.genderMatching # "1"
    THEN "rejected"
    ELSE IF \E k \in 3..Len(questionOrder) :
               /\ shouldShowVerificationQuestion(form, iv, questionOrder[k].type)
               /\ form[questionOrder[k].field] # "1"
               /\ form[questionOrder[k].field] # "3"
    THEN "rejected"
    ELSE "approved"

\* the status without the test of the rejection options
getApprovalStatusByQuestions(form, iv) ==
    IF ~iv.present THEN "rejected" ELSE statusByQuestions(form, iv)

\* getApprovalStatus()
getApprovalStatus(form, iv) ==
    IF ~iv.present THEN "rejected"
    ELSE IF hasRejectionOption(form) THEN "rejected"
    ELSE statusByQuestions(form, iv)

\* the answers of the runs
AudioStatusOptions == {"", "1", "2", "4", "7"}
GenderOptions == {"", "1", "2", "3"}
MatchingOptions == {"", "1", "2", "4"}
NameOptions == {"", "1", "2", "3", "4"}
Forms ==
    [audioStatus : AudioStatusOptions, genderMatching : GenderOptions,
     upcomingElectionsMatching : MatchingOptions,
     previousElectionsMatching : MatchingOptions,
     previousLoksabhaElectionsMatching : MatchingOptions,
     nameMatching : NameOptions, ageMatching : MatchingOptions,
     phoneNumberAsked : {"", "1"}]

EmptyForm ==
    [audioStatus |-> "", genderMatching |-> "",
     upcomingElectionsMatching |-> "", previousElectionsMatching |-> "",
     previousLoksabhaElectionsMatching |-> "", nameMatching |-> "",
     ageMatching |-> "", phoneNumberAsked |-> ""]

NoInterview == [present |-> FALSE, interviewMode |-> "capi", skipped |-> {}]
Interviews ==
    {NoInterview} \cup
    {[present |-> TRUE, interviewMode |-> m, skipped |-> sk] :
        m \in {"capi", "cati"},
        sk \in {{}, {"gender"},
                {"gender", "upcomingElection", "assembly2021", "lokSabha2024",
                 "name", "age"}}}

NoSubmit == [called |-> FALSE, status |-> "none", threw |-> FALSE]

FormIdle ==
    /\ verificationForm = EmptyForm
    /\ interviewProp = NoInterview
    /\ submitted = NoSubmit

\* handleSubmit: the snackbar, or onSubmit(verificationData), which may
\* throw; a run submits once
handleSubmit ==
    /\ ~submitted.called
    /\ UNCHANGED <<verificationForm, interviewProp>>
    /\ IF ~isVerificationFormValid(verificationForm, interviewProp)
       THEN UNCHANGED submitted
       ELSE \E threw \in BOOLEAN :
               submitted' =
                  [called |-> TRUE,
                   status |-> getApprovalStatus(verificationForm, interviewProp),
                   threw |-> threw]

(***************************************************************************)
(* The specifications.                                                     *)
(***************************************************************************)
\* the Interview Record Store on a store whose calls all succeed
StoreSpecInit ==
    /\ StoreInit
    /\ sv = [p \in Savers |-> NotSaving]
    /\ acCache = EmptyACCache /\ acLast = NoACCall
    /\ ProvIdle
    /\ PGIdle
    /\ QueueIdle /\ SurveysIdle /\ PSIdle /\ SaveIdle /\ FormIdle /\ KeysIdle

StoreNext ==
    \/ SaveOfflineInterview(NoFault, SaveInputs)
          /\ UNCHANGED <<raceVars, acVars, provVars, pgVars, queueVars, surveyVars, psVars, saveVars, keyVars, formVars>>
    \/ GetOfflineInterviews(NoFault)
          /\ UNCHANGED <<raceVars, acVars, provVars, pgVars, queueVars, surveyVars, psVars, saveVars, keyVars, formVars>>
    \/ GetOfflineInterviewById(NoFault)
          /\ UNCHANGED <<raceVars, acVars, provVars, pgVars, queueVars, surveyVars, psVars, saveVars, keyVars, formVars>>
    \/ GetPendingInterviews(NoFault)
          /\ UNCHANGED <<raceVars, acVars, provVars, pgVars, queueVars, surveyVars, psVars, saveVars, keyVars, formVars>>
    \/ UpdateInterviewStatus(NoFault, Status)
          /\ UNCHANGED <<raceVars, acVars, provVars, pgVars, queueVars, surveyVars, psVars, saveVars, keyVars, formVars>>
    \/ DeleteSyncedInterview(NoFault)
          /\ UNCHANGED <<raceVars, acVars, provVars, pgVars, queueVars, surveyVars, psVars, saveVars, keyVars, formVars>>

StoreSpec == StoreSpecInit /\ [][StoreNext]_vars

\* the Interview Record Store on a store whose calls may fail
FaultSpecInit ==
    /\ StoreInit
    /\ sv = [p \in Savers |-> NotSaving]
    /\ acCache = EmptyACCache /\ acLast = NoACCall
    /\ ProvIdle
    /\ PGIdle
    /\ QueueIdle /\ SurveysIdle /\ PSIdle /\ SaveIdle /\ FormIdle /\ KeysIdle

FaultNext ==
    \/ \E f \in {NoFault} \cup ReadFaults \cup WriteFaults :
          SaveOfflineInterview(f, FaultSaveInputs)
             /\ UNCHANGED <<raceVars, acVars, provVars, pgVars, queueVars, surveyVars, psVars, saveVars, keyVars, formVars>>
    \/ \E f \in {NoFault} \cup ReadFaults :
          GetOfflineInterviews(f) /\ UNCHANGED <<raceVars, acVars, provVars, pgVars, queueVars, surveyVars, psVars, saveVars, keyVars, formVars>>
    \/ \E f \in {NoFault} \cup ReadFaults :
          GetOfflineInterviewById(f)
             /\ UNCHANGED <<raceVars, acVars, provVars, pgVars, queueVars, surveyVars, psVars, saveVars, keyVars, formVars>>
    \/ \E f \in {NoFault} \cup ReadFaults :
          GetPendingInterviews(f) /\ UNCHANGED <<raceVars, acVars, provVars, pgVars, queueVars, surveyVars, psVars, saveVars, keyVars, formVars>>
    \/ \E f \in {NoFault} \cup ReadFaults \cup Read2Faults \cup WriteFaults :
          UpdateInterviewStatus(f, FaultStatus)
             /\ UNCHANGED <<raceVars, acVars, provVars, pgVars, queueVars, surveyVars, psVars, saveVars, keyVars, formVars>>
    \/ \E f \in {NoFault} \cup ReadFaults \cup WriteFaults :
          DeleteSyncedInterview(f) /\ UNCHANGED <<raceVars, acVars, provVars, pgVars, queueVars, surveyVars, psVars, saveVars, keyVars, formVars>>

FaultSpec == FaultSpecInit /\ [][FaultNext]_vars

\* overlapping saveOfflineInterview calls
RaceSpecInit ==
    /\ RaceInit
    /\ acCache = EmptyACCache /\ acLast = NoACCall
    /\ ProvIdle
    /\ PGIdle
    /\ QueueIdle /\ SurveysIdle /\ PSIdle /\ SaveIdle /\ FormIdle /\ KeysIdle

RaceNext ==
    \/ \E p \in Savers : SaveStart(p) /\ UNCHANGED <<last, acVars, provVars, pgVars, queueVars, surveyVars, psVars, saveVars, keyVars, formVars>>
    \/ \E p \in Savers : SaveRead(p) /\ UNCHANGED <<last, acVars, provVars, pgVars, queueVars, surveyVars, psVars, saveVars, keyVars, formVars>>
    \/ \E p \in Savers : SaveWriteBack(p) /\ UNCHANGED <<last, acVars, provVars, pgVars, queueVars, surveyVars, psVars, saveVars, keyVars, formVars>>
    \/ \E p \in Savers : SaveWrite(p) /\ UNCHANGED <<last, acVars, provVars, pgVars, queueVars, surveyVars, psVars, saveVars, keyVars, formVars>>

RaceSpec == RaceSpecInit /\ [][RaceNext]_vars

\* overlapping saves and a deleteSyncedInterview
DeleteRaceSpecInit ==
    /\ RaceInit
    /\ acCache = EmptyACCache /\ acLast = NoACCall
    /\ ProvIdle
    /\ PGIdle
    /\ QueueIdle /\ SurveysIdle /\ PSIdle /\ SaveIdle /\ FormIdle /\ KeysIdle

DeleteRaceNext ==
    \/ \E p \in Savers : SaveStart(p) /\ UNCHANGED <<last, acVars, provVars, pgVars, queueVars, surveyVars, psVars, saveVars, keyVars, formVars>>
    \/ \E p \in Savers : SaveRead(p) /\ UNCHANGED <<last, acVars, provVars, pgVars, queueVars, surveyVars, psVars, saveVars, keyVars, formVars>>
    \/ \E p \in Savers : SaveWriteBack(p) /\ UNCHANGED <<last, acVars, provVars, pgVars, queueVars, surveyVars, psVars, saveVars, keyVars, formVars>>
    \/ \E p \in Savers : SaveWrite(p) /\ UNCHANGED <<last, acVars, provVars, pgVars, queueVars, surveyVars, psVars, saveVars, keyVars, formVars>>
    \/ DeleteDuringSave /\ UNCHANGED <<acVars, provVars, pgVars, queueVars, surveyVars, psVars, saveVars, keyVars, formVars>>

DeleteRaceSpec == DeleteRaceSpecInit /\ [][DeleteRaceNext]_vars

\* the all-ACs-for-state cache
ACSpecInit ==
    /\ ACInit
    /\ store = NoData /\ last = NoCall
    /\ sv = [p \in Savers |-> NotSaving]
    /\ ProvIdle
    /\ PGIdle
    /\ QueueIdle /\ SurveysIdle /\ PSIdle /\ SaveIdle /\ FormIdle /\ KeysIdle

ACNext ==
    \/ SaveAllACsForState /\ UNCHANGED <<storeVars, raceVars, provVars, pgVars, queueVars, surveyVars, psVars, saveVars, keyVars, formVars>>
    \/ GetAllACsForState /\ UNCHANGED <<storeVars, raceVars, provVars, pgVars, queueVars, surveyVars, psVars, saveVars, keyVars, formVars>>
    \/ ClearACsForState /\ UNCHANGED <<storeVars, raceVars, provVars, pgVars, queueVars, surveyVars, psVars, saveVars, keyVars, formVars>>

ACSpec == ACSpecInit /\ [][ACNext]_vars

\* the provisioning orchestrator; every awaited call settles
ProvSpecInit ==
    /\ ProvIdle
    /\ PGIdle
    /\ QueueIdle /\ SurveysIdle /\ PSIdle /\ SaveIdle /\ FormIdle /\ KeysIdle
    /\ acCache = EmptyACCache /\ acLast = NoACCall
    /\ store = NoData /\ last = NoCall
    /\ sv = [p \in Savers |-> NotSaving]

ProvNext ==
    \/ \E p \in Callers : Call(p) /\ UNCHANGED <<storeVars, raceVars, acLast, pgVars, queueVars, surveyVars, psVars, saveVars, keyVars, formVars>>
    \/ \E p \in Callers : ImportApi(p) /\ UNCHANGED <<storeVars, raceVars, acLast, pgVars, queueVars, surveyVars, psVars, saveVars, keyVars, formVars>>
    \/ \E p \in Callers : BundledACs(p) /\ UNCHANGED <<storeVars, raceVars, acLast, pgVars, queueVars, surveyVars, psVars, saveVars, keyVars, formVars>>
    \/ \E p \in Callers : ReadACs(p) /\ UNCHANGED <<storeVars, raceVars, acLast, pgVars, queueVars, surveyVars, psVars, saveVars, keyVars, formVars>>
    \/ \E p \in Callers : Groups(p) /\ UNCHANGED <<storeVars, raceVars, acLast, pgVars, queueVars, surveyVars, psVars, saveVars, keyVars, formVars>>
    \/ \E p \in Callers : Stations(p) /\ UNCHANGED <<storeVars, raceVars, acLast, pgVars, queueVars, surveyVars, psVars, saveVars, keyVars, formVars>>
    \/ \E p \in Callers : Delay(p) /\ UNCHANGED <<storeVars, raceVars, acLast, pgVars, queueVars, surveyVars, psVars, saveVars, keyVars, formVars>>
    \/ \E p \in Callers : Quota(p) /\ UNCHANGED <<storeVars, raceVars, acLast, pgVars, queueVars, surveyVars, psVars, saveVars, keyVars, formVars>>
    \/ \E p \in Callers : Cati(p) /\ UNCHANGED <<storeVars, raceVars, acLast, pgVars, queueVars, surveyVars, psVars, saveVars, keyVars, formVars>>
    \/ \E p \in Callers : User(p) /\ UNCHANGED <<storeVars, raceVars, acLast, pgVars, queueVars, surveyVars, psVars, saveVars, keyVars, formVars>>

ProvSpec ==
    /\ ProvSpecInit
    /\ [][ProvNext]_vars
    /\ \A p \in Callers : WF_vars(RunStep(p) /\ UNCHANGED <<storeVars, raceVars, acLast, pgVars, queueVars, surveyVars, psVars, saveVars, keyVars, formVars>>)

\* the polling-groups cache and its lookup
LookupSpecInit ==
    /\ PGIdle
    /\ QueueIdle /\ SurveysIdle /\ PSIdle /\ SaveIdle /\ FormIdle /\ KeysIdle
    /\ store = NoData /\ last = NoCall
    /\ sv = [p \in Savers |-> NotSaving]
    /\ acCache = EmptyACCache /\ acLast = NoACCall
    /\ ProvIdle

LookupNext ==
    \/ SavePollingGroups /\ UNCHANGED <<storeVars, raceVars, acVars, provVars, queueVars, surveyVars, psVars, saveVars, keyVars, formVars>>
    \/ GetPollingGroups /\ UNCHANGED <<storeVars, raceVars, acVars, provVars, queueVars, surveyVars, psVars, saveVars, keyVars, formVars>>

LookupSpec == LookupSpecInit /\ [][LookupNext]_vars

\* the two lookup caches: separate storage keys, no function of one reads
\* the key of the other, so a run works on one of them
ScopeNext ==
    \/ SavePollingGroups /\ PSIdle /\ UNCHANGED <<storeVars, raceVars, acVars, provVars, queueVars, surveyVars, psVars, saveVars, keyVars, formVars>>
    \/ GetPollingGroups /\ PSIdle /\ UNCHANGED <<storeVars, raceVars, acVars, provVars, queueVars, surveyVars, psVars, saveVars, keyVars, formVars>>
    \/ SavePollingStations /\ PGIdle /\ UNCHANGED <<storeVars, raceVars, acVars, provVars, pgVars, queueVars, surveyVars, saveVars, keyVars, formVars>>
    \/ GetPollingStations /\ PGIdle /\ UNCHANGED <<storeVars, raceVars, acVars, provVars, pgVars, queueVars, surveyVars, saveVars, keyVars, formVars>>

ScopeSpec == LookupSpecInit /\ [][ScopeNext]_vars

\* the Sync Queue, its calls made one after another
QueueSpecInit ==
    /\ QueueIdle /\ SurveysIdle /\ PSIdle /\ SaveIdle /\ FormIdle /\ KeysIdle
    /\ PGIdle
    /\ store = NoData /\ last = NoCall
    /\ sv = [p \in Savers |-> NotSaving]
    /\ acCache = EmptyACCache /\ acLast = NoACCall
    /\ ProvIdle

QueueNext ==
    \/ AddToSyncQueue
          /\ UNCHANGED <<storeVars, raceVars, acVars, provVars, pgVars, surveyVars, psVars, saveVars, keyVars, formVars>>
    \/ GetSyncQueue
          /\ UNCHANGED <<storeVars, raceVars, acVars, provVars, pgVars, surveyVars, psVars, saveVars, keyVars, formVars>>
    \/ RemoveFromSyncQueue
          /\ UNCHANGED <<storeVars, raceVars, acVars, provVars, pgVars, surveyVars, psVars, saveVars, keyVars, formVars>>
    \/ ClearSyncQueue
          /\ UNCHANGED <<storeVars, raceVars, acVars, provVars, pgVars, surveyVars, psVars, saveVars, keyVars, formVars>>

QueueSpec == QueueSpecInit /\ [][QueueNext]_vars

\* the Sync Queue with an addToSyncQueue and a removeFromSyncQueue that overlap
QueueRaceNext ==
    \/ AddStart
          /\ UNCHANGED <<storeVars, raceVars, acVars, provVars, pgVars, surveyVars, psVars, saveVars, keyVars, formVars>>
    \/ RemoveStart
          /\ UNCHANGED <<storeVars, raceVars, acVars, provVars, pgVars, surveyVars, psVars, saveVars, keyVars, formVars>>
    \/ \E p \in QueueCallers : QueueRead(p)
          /\ UNCHANGED <<storeVars, raceVars, acVars, provVars, pgVars, surveyVars, psVars, saveVars, keyVars, formVars>>
    \/ AddWrite
          /\ UNCHANGED <<storeVars, raceVars, acVars, provVars, pgVars, surveyVars, psVars, saveVars, keyVars, formVars>>
    \/ RemoveWrite
          /\ UNCHANGED <<storeVars, raceVars, acVars, provVars, pgVars, surveyVars, psVars, saveVars, keyVars, formVars>>

QueueRaceSpec == QueueSpecInit /\ [][QueueRaceNext]_vars

\* the stored surveys
SurveySpecInit ==
    /\ QueueIdle /\ SurveysIdle /\ PSIdle /\ SaveIdle /\ FormIdle /\ KeysIdle
    /\ PGIdle
    /\ store = NoData /\ last = NoCall
    /\ sv = [p \in Savers |-> NotSaving]
    /\ acCache = EmptyACCache /\ acLast = NoACCall
    /\ ProvIdle

SurveyNext ==
    \/ SaveSurveys
          /\ UNCHANGED <<storeVars, raceVars, acVars, provVars, pgVars, queueVars, psVars, saveVars, formVars>>
    \/ GetSurveys
          /\ UNCHANGED <<storeVars, raceVars, acVars, provVars, pgVars, queueVars, psVars, saveVars, keyVars, saveVars, keyVars, formVars>>

SurveySpec == SurveySpecInit /\ [][SurveyNext]_vars

\* saveSurveys calls that overlap
SaveNext ==
    \/ \E p \in SurveyCallers : SaveSurveysStart(p) /\ UNCHANGED <<storeVars, raceVars, acVars, provVars, pgVars, queueVars, surveysLast, psVars, formVars>>
    \/ \E p \in SurveyCallers : WriteSurveys(p) /\ UNCHANGED <<storeVars, raceVars, acVars, provVars, pgVars, queueVars, surveysLast, psVars, formVars>>
    \/ \E p \in SurveyCallers : WriteTime(p) /\ UNCHANGED <<storeVars, raceVars, acVars, provVars, pgVars, queueVars, surveysLast, psVars, formVars>>
    \/ \E p \in SurveyCallers : Provisioning(p) /\ UNCHANGED <<storeVars, raceVars, acVars, provVars, pgVars, queueVars, surveysLast, psVars, formVars>>

SaveSpec == SurveySpecInit /\ [][SaveNext]_vars

\* the two clearing functions, from a device that holds surveys,
\* interviews, a queue and the lookup caches, and any of the other keys
ClearSpecInit ==
    /\ store = Data(<<OfflineInterview(1, "pending", 1000, "null", 0, "none", FALSE)>>)
    /\ syncQueue = Data(<<SyncQueueItem(1, "complete", 1)>>)
    /\ offlineSurveys = Data(<<1>>)
    /\ acCache = saveAllACsForState(EmptyACCache, "West Bengal", 294)
    /\ pgCache = <<PollingGroup("West Bengal", ACCode23, ExampleAC_SC)>>
    /\ psCache = <<PollingStation(<<"B">>, <<"2">>, <<"1">>, ExampleAC_SC)>>
    /\ keys \in [OtherKeys -> BOOLEAN]
    /\ last = NoCall /\ sv = [p \in Savers |-> NotSaving]
    /\ acLast = NoACCall /\ ProvIdle /\ pgLast = NoPGCall
    /\ qClock = 1 /\ qLast = NoQueueCall
    /\ qp = [p \in QueueCallers |-> NotQueueing]
    /\ surveysLast = NoSurveysCall /\ psLast = NoPSCall /\ SaveIdle /\ FormIdle

ClearNext ==
    \/ ClearAllCache /\ UNCHANGED <<last, raceVars, acLast, provVars, pgLast, qClock, qLast, qp, surveysLast, psLast, saveVars, formVars>>
    \/ ClearAllOfflineData /\ UNCHANGED <<last, raceVars, acLast, provVars, pgLast, qClock, qLast, qp, surveysLast, psLast, saveVars, formVars>>

ClearSpec == ClearSpecInit /\ [][ClearNext]_vars

\* the quality-verification form with any answers, submitted
FormSpecInit ==
    /\ verificationForm \in Forms
    /\ interviewProp \in Interviews
    /\ submitted = NoSubmit
    /\ store = NoData /\ last = NoCall
    /\ sv = [p \in Savers |-> NotSaving]
    /\ acCache = EmptyACCache /\ acLast = NoACCall
    /\ ProvIdle
    /\ PGIdle
    /\ QueueIdle /\ SurveysIdle /\ PSIdle /\ SaveIdle /\ KeysIdle

FormNext ==
    \/ handleSubmit /\ UNCHANGED <<storeVars, raceVars, acVars, provVars, pgVars, queueVars, surveyVars, psVars, saveVars, keyVars>>

FormSpec == FormSpecInit /\ [][FormNext]_vars

(***************************************************************************)
(* Properties of the Interview Record Store.                               *)
(***************************************************************************)
\* a well-formed entry: an object with an id whose serialized size is not
\* above 2,000,000 characters
WellFormed(e) == e.obj /\ e.id # NoId /\ e.size <= 2000000

\* the persisted collection s holds a well-formed interview with this id
Holds(s, id) ==
    s.has /\ \E k \in 1..Len(s.list) : WellFormed(s.list[k]) /\ s.list[k].id = id

RECURSIVE WellFormedOf(_)
WellFormedOf(l) ==
    IF l = <<>> THEN <<>>
    ELSE IF WellFormed(Head(l))
    THEN <<Head(l)>> \o WellFormedOf(Tail(l))
    ELSE WellFormedOf(Tail(l))

IdsOf(l) == {l[k].id : k \in 1..Len(l)}

\* C1: a well-formed interview of the persisted collection leaves it only by
\* a deleteSyncedInterview of its id.  Steps whose read failed with 'Row too
\* big' are set aside: the loss shown is not the discard of an unreadable
\* collection.
C1_OnlyDeleteRemoves ==
    [][\A id \in Ids :
          (Holds(store, id) /\ last'.rd # "rowTooBig")
             => \/ Holds(store', id)
                \/ last'.op = "delete" /\ last'.id = id]_vars

\* C5: a getOfflineInterviewById(x.id) made right after a successful
\* saveOfflineInterview(x) returns a record with the id of x and the status
\* of x (the status 'pending' for an x saved without a status).
C5_RoundTrip ==
    [][(last.op = "save" /\ last.out = "ok"
           /\ last'.op = "getById" /\ last'.id = last.id)
          => /\ Len(last'.ret) = 1
             /\ last'.ret[1].id = last.id
             /\ \/ last'.ret[1].status = last.status
                \/ last.status = NoStatus /\ last'.ret[1].status = "pending"]_vars

\* C6: getOfflineInterviews on a stored collection returns exactly its
\* well-formed entries in their stored order, and the persisted collection
\* after the call is exactly that list.
C6_FilterAndHeal ==
    [][(last'.op = "getAll" /\ store.has)
          => /\ last'.ret = WellFormedOf(store.list)
             /\ store'.has
             /\ store'.list = last'.ret]_vars

\* a getOfflineInterviews that dropped entries, returned the rest and left
\* exactly them persisted
C6_Healed ==
    /\ last.op = "getAll" /\ last.wb
    /\ Len(last.ret) >= 1
    /\ store = Data(last.ret)

\* C7: a getOfflineInterviews that directly follows a getOfflineInterviews
\* returns the same set of ids, leaves the persisted collection as it is and
\* issues no write-back.
C7_Idempotent ==
    [][(last.op = "getAll" /\ last'.op = "getAll")
          => /\ IdsOf(last'.ret) = IdsOf(last.ret)
             /\ store' = store
             /\ ~last'.wb]_vars

\* the second of two getOfflineInterviews in a row, the first of which had
\* cleaned the collection
C7_SecondCall ==
    last.op = "getAll" /\ last.rep /\ last.healed /\ Len(last.ret) >= 1

\* C10: updateInterviewStatus never moves a stored interview out of 'synced'
\* (the transition the guard must reject in the first place).
C10_NoTransitionOutOfSynced ==
    [][last'.op = "update"
          => \A k \in 1..Len(store.list) :
                (WellFormed(store.list[k]) /\ store.list[k].status = "synced")
                   => \E j \in 1..Len(store'.list) :
                         /\ store'.list[j].id = store.list[k].id
                         /\ store'.list[j].status = "synced"]_vars

RECURSIVE PendingOf(_)
PendingOf(l) ==
    IF l = <<>> THEN <<>>
    ELSE IF Head(l).status \in {NoStatus, "pending", "failed"}
    THEN <<Head(l)>> \o PendingOf(Tail(l))
    ELSE PendingOf(Tail(l))

\* C11: getPendingInterviews returns, in collection order, exactly the
\* entries that getOfflineInterviews returns (the well-formed entries of the
\* stored collection) whose status is absent, 'pending' or 'failed'.
C11_PendingExactly ==
    [][last'.op = "getPending"
          => /\ last'.ret = PendingOf(WellFormedOf(store.list))
             /\ \A k \in 1..Len(last'.ret) :
                   last'.ret[k].status \notin {"syncing", "synced"}]_vars

\* a getPendingInterviews that returned a 'failed' interview and left out
\* a 'synced' or 'syncing' one
C11_Mixed ==
    /\ last.op = "getPending"
    /\ \E k \in 1..Len(last.ret) : last.ret[k].status = "failed"
    /\ \E k \in 1..Len(store.list) :
          store.list[k].status \in {"syncing", "synced"}

\* C15: a saveOfflineInterview that succeeds leaves no record above the
\* ceiling of 2,000,000 characters in the persisted collection.
C15_CeilingEnforced ==
    [][(last'.op = "save" /\ last'.out = "ok")
          => \A k \in 1..Len(store'.list) : store'.list[k].size <= 2000000]_vars

\* C24: no record of the persisted collection carries a survey body: the
\* record written by saveOfflineInterview, called directly or by
\* updateInterviewStatus, has survey = null, inserted or replaced, whatever
\* survey the caller passed.
C24_SurveyNeverPersisted ==
    /\ \A k \in 1..Len(store.list) : store.list[k].survey = "null"
    /\ (last.op \in {"save", "update"} /\ last.out = "ok")
          => \A k \in 1..Len(store.list) :
                store.list[k].id = last.id => store.list[k].survey = "null"

\* a record passed with its survey body has replaced the stored record of
\* its id
C24_ReplacedWithBody ==
    /\ last.op = "save" /\ last.out = "ok" /\ last.su = "body" /\ ~last.wb
    /\ last.n0 >= 1 /\ Len(store.list) = last.n0
    /\ \E k \in 1..Len(store.list) : store.list[k].id = last.id

\* the well-formed record of this id in the list
RecordOf(l, id) ==
    LET w == WellFormedOf(l) IN w[findIndex(w, id)]

C2_BothPresent ==
    (\A p \in Savers : sv[p].pc = "done") => \A p \in Savers : Holds(store, p)

\* C29: an interview deleted by a deleteSyncedInterview that has completed
\* stays deleted, also when a saveOfflineInterview of its id had read the
\* collection before the delete wrote and writes after it: it is not in
\* the persisted collection and not among the pending interviews.
C29_StaysDeleted ==
    \A id \in Ids :
        (last.op = "delete" /\ last.id = id /\ last.out = "ok" /\ last.inFlight)
           => /\ ~Holds(store, id)
              /\ id \notin IdsOf(getPendingInterviews(store, NoFault).ret)

(***************************************************************************)
(* Properties of the all-ACs-for-state cache.                              *)
(***************************************************************************)
\* the completeness floor of a state
Floor(S) == IF S = "West Bengal" THEN 200 ELSE 50

\* C3: getAllACsForState(S) returns an empty list or a list of at least the
\* floor of S.
C3_FloorOrEmpty ==
    acLast.op = "get" => (acLast.ret = 0 \/ acLast.ret >= Floor(acLast.state))

\* a read that served a list between the two floors for another state, and
\* one that refused such a list for West Bengal
C3_Served ==
    /\ acLast.op = "get"
    /\ acLast.was.kind = "list" /\ acLast.was.n >= 50 /\ acLast.was.n < 200
    /\ \/ acLast.state # "West Bengal" /\ acLast.ret = acLast.was.n
       \/ acLast.state = "West Bengal" /\ acLast.ret = 0

Skipped(p) == run[p].out = "skipped"

\* C8: at most one call is past the isDownloading guard at any time; a call
\* made while another one is in flight returns at once: it is never in
\* flight, has made no bundled, remote or cache call, and its step leaves
\* the cache, the flag and the run in flight as they are.
C8_MutualExclusion ==
    /\ [](/\ Cardinality({p \in Callers : InFlight(p)}) <= 1
          /\ \A p \in Callers : Skipped(p) => (~InFlight(p) /\ run[p].eff = {}))
    /\ [][\A p \in Callers :
             (run'[p].out = "skipped" /\ run'[p] # run[p])
                => /\ \E q \in Callers \ {p} : InFlight(q)
                   /\ acCache' = acCache
                   /\ isDownloading' = isDownloading
                   /\ \A q \in Callers \ {p} : run'[q] = run[q]]_vars

\* a call was turned away while a run that has already made calls is in flight
C8_Rejected ==
    \E p, q \in Callers :
        /\ Skipped(p)
        /\ InFlight(q) /\ "saveAllACs" \in run[q].eff

\* C9: the flag is set exactly while a run is in flight (a call turned away
\* does not clear it, and no run leaves it set), every step that ends a run
\* leaves the flag cleared, a call made while no run is in flight passes the
\* guard, and every run in flight ends.
C9_FlagCleared ==
    /\ [](isDownloading <=> \E p \in Callers : InFlight(p))
    /\ [][\A p \in Callers :
             /\ (InFlight(p) /\ ~InFlight(p)') => ~isDownloading'
             /\ (~isDownloading /\ run'[p] # run[p] /\ ~InFlight(p))
                   => run'[p].out # "skipped"]_vars
    /\ \A p \in Callers : InFlight(p) ~> ~InFlight(p)

\* a run has ended through the early return of the empty-assigned-AC branch
\* after its loop, and the flag is cleared
C9_EndedByReturn ==
    \E p \in Callers :
        /\ run[p].out = "resolved"
        /\ "remoteGroups" \in run[p].eff /\ "remoteUser" \notin run[p].eff
        /\ ~isDownloading

\* the step ends the run of p with a resolved promise
EndsResolved(p) ==
    InFlight(p) /\ run'[p].pc = "idle" /\ run'[p].out = "resolved"

\* C18: a run that passed the guard and resolves has requested the current
\* user from the remote source.
C18_UserRefreshed ==
    [][\A p \in Callers :
          EndsResolved(p) => "remoteUser" \in run'[p].eff]_vars

\* C19: a run that passed the guard and resolves has fetched the gender
\* quotas of its surveys, and has fetched a CATI set number exactly when
\* one of its surveys is a CATI survey.
C19_QuotasAndSetNumbers ==
    [][\A p \in Callers :
          EndsResolved(p)
             => /\ "remoteQuota" \in run'[p].eff
                /\ ("remoteCati" \in run'[p].eff
                      <=> \E k \in 1..Len(run[p].inp.surveys) :
                             run[p].inp.surveys[k].cati)]_vars

\* C20: no run ever calls the remote API service for polling groups or
\* polling stations.
C20_NoRemoteGeography ==
    \A p \in Callers :
        /\ "remoteGroups" \notin run[p].eff
        /\ "remoteStations" \notin run[p].eff

\* the run of p is in the loop of the empty-assigned-AC branch
InACLoop(p) == run[p].pc \in {"groups", "stations", "delay"}

StepAt(p, pc) == run[p].pc = pc /\ run'[p] # run[p]

\* the step goes on after AC i: to the next AC (after the delay, where one
\* is due), or, after the last AC, to the end of the run
GoesOnAfterAC(p) ==
    IF run[p].i < run[p].n
    THEN \/ run'[p].pc = "groups" /\ run'[p].i = run[p].i + 1
         \/ run'[p].pc = "delay" /\ run'[p].i = run[p].i
    ELSE run'[p].pc = "idle" /\ run'[p].out = "resolved"

\* C22: whatever the outcome of an item (success, a non-success result or a
\* thrown error), the run goes on with the next item: after an AC the next
\* AC, after a group the next group of the AC, after a survey's quota or
\* set number the next survey, after the last survey the user refresh; no
\* such step rejects the call, and a run ends only after its last item.
C22_FailuresContained ==
    [][\A p \in Callers :
          /\ (InFlight(p) /\ run[p].pc # "importApi" /\ run'[p] # run[p])
                => run'[p].out # "rejected"
          /\ StepAt(p, "groups")
                => \/ run'[p].pc = "stations" /\ run'[p].i = run[p].i
                   \/ GoesOnAfterAC(p)
          /\ StepAt(p, "stations")
                => IF run[p].j < run[p].ng
                   THEN /\ run'[p].pc = "stations"
                        /\ run'[p].i = run[p].i /\ run'[p].j = run[p].j + 1
                   ELSE GoesOnAfterAC(p)
          /\ StepAt(p, "quota")
                => IF run[p].i < Len(surveyIds(run[p].inp.surveys))
                   THEN run'[p].pc = "quota" /\ run'[p].i = run[p].i + 1
                   ELSE run'[p].pc = "cati" /\ run'[p].i = 1
          /\ StepAt(p, "cati")
                => IF run[p].i < Len(run[p].inp.surveys)
                   THEN run'[p].pc = "cati" /\ run'[p].i = run[p].i + 1
                   ELSE run'[p].pc = "user"
          /\ StepAt(p, "user")
                => /\ run'[p].pc = "idle" /\ run'[p].out = "resolved"
                   /\ {"remoteQuota", "remoteUser"} \subseteq run'[p].eff]_vars

\* the groups request of every AC so far has failed, the stations request of
\* no group has ever been made, and the run is at a later AC
C22_WentOnAfterFailure ==
    \E p \in Callers :
        /\ run[p].pc = "groups" /\ run[p].i >= 2
        /\ "remoteGroups" \in run[p].eff /\ "saveGroups" \notin run[p].eff

(***************************************************************************)
(* Properties of the polling-groups lookup.                                *)
(***************************************************************************)
\* spellings of one AC name that differ only by letter case, a
\* parenthetical suffix or runs of blanks
ExampleSpellings == {ExampleAC, ExampleAC_SC, ExampleACBlanks}

\* C16: when the cache holds, for state S, an entry under an AC code whose
\* ac_name is a spelling of the search identifier, and no entry under the
\* exact key, getPollingGroups(S, identifier) returns an entry of S with
\* such an ac_name.
C16_NormalizedFallback ==
    [][(/\ pgLast'.op = "get"
        /\ pgLast'.acIdentifier \in ExampleSpellings
        /\ \A k \in 1..Len(pgCache) :
              ~(/\ pgCache[k].state = pgLast'.state
                /\ pgCache[k].acIdentifier = pgLast'.acIdentifier)
        /\ \E k \in 1..Len(pgCache) :
              /\ pgCache[k].state = pgLast'.state
              /\ pgCache[k].acIdentifier \in {ACCode23, <<"2">>}
              /\ pgCache[k].ac_name \in ExampleSpellings)
          => /\ pgLast'.k # 0
             /\ pgCache[pgLast'.k].state = pgLast'.state
             /\ pgCache[pgLast'.k].ac_name \in ExampleSpellings]_vars

\* C17: a lookup by the known spelling variant 'Cooch Behar Uttar' finds
\* the entry cached for the state under the canonical spelling
\* 'COOCHBEHAR UTTAR (SC)'.
C17_TableConsulted ==
    [][(/\ pgLast'.op = "get"
        /\ pgLast'.acIdentifier = CoochBeharUttar
        /\ \E k \in 1..Len(pgCache) :
              /\ pgCache[k].state = pgLast'.state
              /\ pgCache[k].acIdentifier = COOCHBEHAR_UTTAR_SC)
          => /\ pgLast'.k # 0
             /\ pgCache[pgLast'.k].state = pgLast'.state
             /\ pgCache[pgLast'.k].acIdentifier = COOCHBEHAR_UTTAR_SC]_vars

\* C30: an entry returned by getPollingGroups was found under the exact
\* key, or its normalized ac_name or its normalized key equals the
\* normalized identifier; for every other identifier, the empty one and a
\* bare parenthetical included, the lookup returns null.
C30_OnlyEqualNames ==
    [][(pgLast'.op = "get" /\ pgLast'.k # 0)
          => LET e == pgCache[pgLast'.k]
                 normalizedSearchName == normalizedName(pgLast'.acIdentifier)
             IN  \/ e.acIdentifier = pgLast'.acIdentifier
                 \/ normalizedName(e.ac_name) = normalizedSearchName
                 \/ normalizedName(e.acIdentifier) = normalizedSearchName]_vars

\* the entries of the state that match the identifier by their ac_name
NameMatches(state, acIdentifier) ==
    {k \in 1..Len(pgCache) :
        /\ pgCache[k].state = state
        /\ pgCache[k].ac_name # <<>>
        /\ matches(normalizedName(pgCache[k].ac_name),
                   normalizedName(acIdentifier))}

\* C31: when no entry sits under the exact key and the normalized ac_name
\* of some entry of the state equals the normalized identifier, the lookup
\* returns the first entry in store order that matches by ac_name,
\* wherever an entry that matches by its cache key only is stored.
C31_TierOrder ==
    [][(/\ pgLast'.op = "get"
        /\ \A k \in 1..Len(pgCache) :
              ~(/\ pgCache[k].state = pgLast'.state
                /\ pgCache[k].acIdentifier = pgLast'.acIdentifier)
        /\ \E k \in NameMatches(pgLast'.state, pgLast'.acIdentifier) :
              normalizedName(pgCache[k].ac_name) =
                 normalizedName(pgLast'.acIdentifier))
          => /\ pgLast'.k \in NameMatches(pgLast'.state, pgLast'.acIdentifier)
             /\ \A j \in NameMatches(pgLast'.state, pgLast'.acIdentifier) :
                   pgLast'.k <= j]_vars

(***************************************************************************)
(* Properties of the Interview Record Store under storage failures.        *)
(***************************************************************************)
ReadOps == {"getAll", "getById", "getPending"}

Observed(c) == <<c.out, c.ret>>

\* C13: a getOfflineInterviews whose read failed with 'Row too big' and
\* discarded the collection gives its caller something else than what a
\* read of a store without interviews gives (a resolved promise with an
\* empty list).
C13_DiscardSurfaced ==
    [][(last'.op = "getAll" /\ last'.rd = "rowTooBig")
          => Observed(last') # <<"ok", <<>>>>]_vars

\* C14 as stated: a saveOfflineInterview whose setItem is rejected fails
\* with the specific error for 'Row too big' and with the original error
\* otherwise, and leaves the persisted collection exactly as it was.
C14_WriteRejectedExact ==
    [][(last'.op = "save" /\ last'.wr # "ok")
          => /\ last'.out = (IF last'.wr = "rowTooBig" THEN "tooLarge" ELSE "error")
             /\ store' = store]_vars

\* C14, amended: a saveOfflineInterview whose setItem is rejected fails
\* with the specific error for 'Row too big' and with the original error
\* otherwise, and the well-formed interviews of the persisted collection
\* are exactly what they were before the call (the read inside the call may
\* have cleaned corrupted entries away).
C14_WriteRejected ==
    [][(last'.op = "save" /\ last'.wr # "ok")
          => /\ last'.out = (IF last'.wr = "rowTooBig" THEN "tooLarge" ELSE "error")
             /\ WellFormedOf(store'.list) = WellFormedOf(store.list)
             /\ ~Holds(store, last'.id) => ~Holds(store', last'.id)]_vars

\* a save on a non-empty collection was rejected with 'Row too big'
C14_TooLarge ==
    /\ last.op = "save" /\ last.wr = "rowTooBig" /\ last.out = "tooLarge"
    /\ last.n0 > 0 /\ Len(store.list) > 0
(***************************************************************************)
(* Properties of the stored surveys.                                       *)
(***************************************************************************)
\* C26: after a saveSurveys(L), getSurveys returns exactly L, whatever list
\* was stored before: the stored list is superseded, not merged.
C26_Superseded ==
    /\ surveysLast.op = "save" => getSurveys(offlineSurveys) = surveysLast.list
    /\ surveysLast.op = "get" => surveysLast.ret = surveysLast.list

\* surveys were stored, a list that holds none of them was saved, and the
\* read returns the new list only
C26_OldSurveysGone ==
    /\ surveysLast.op = "save"
    /\ surveysLast.was # <<>> /\ surveysLast.list # <<>>
    /\ \A j \in 1..Len(surveysLast.was), k \in 1..Len(surveysLast.list) :
          surveysLast.was[j] # surveysLast.list[k]
    /\ getSurveys(offlineSurveys) = surveysLast.list

\* C28: a saveOfflineInterview removes no other interview: every
\* well-formed interview persisted before the call is persisted after it,
\* also when the read inside the call failed (the discard of a collection
\* whose read fails with 'Row too big' set aside).
C28_SaveKeepsOthers ==
    [][(last'.op = "save" /\ last'.rd # "rowTooBig")
          => \A id \in Ids \ {last'.id} :
                Holds(store, id) => Holds(store', id)]_vars

(***************************************************************************)
(* Properties of the Sync Queue.                                           *)
(***************************************************************************)
ItemsOf(queue) == {queue[k] : k \in 1..Len(queue)}

\* the items stand in the order in which they were created
InAddOrder(queue) ==
    \A j, k \in 1..Len(queue) :
        j < k => queue[j].timestamp < queue[k].timestamp

\* x stands before y in the queue
Before(queue, x, y) ==
    \E j, k \in 1..Len(queue) : j < k /\ queue[j] = x /\ queue[k] = y

IsRemoveWrite(interviewId) ==
    /\ qp["driver"].pc = "write" /\ qp'["driver"].pc = "idle"
    /\ qp["driver"].item.interviewId = interviewId

\* the step is the setItem of the addToSyncQueue of this item
IsAddWrite(item) ==
    /\ qp["capture"].pc = "write" /\ qp'["capture"].pc = "idle"
    /\ qp["capture"].item = item

\* C27: with an addToSyncQueue and a removeFromSyncQueue that overlap, a
\* queued item leaves the queue only by the write of a removeFromSyncQueue
\* for its interview, and an item enters the queue only by the write of
\* its own addToSyncQueue: a removed item does not come back.
C27_NoLostUpdate ==
    [][LET queue == ItemsOf(getSyncQueue(syncQueue))
           after == ItemsOf(getSyncQueue(syncQueue'))
       IN  /\ \A item \in queue \ after : IsRemoveWrite(item.interviewId)
           /\ \A item \in after \ queue : IsAddWrite(item)]_vars

(***************************************************************************)
(* Properties of the scope of the lookups.                                 *)
(***************************************************************************)
\* C32: a lookup of the polling groups returns an entry that was cached
\* under the state asked for, and a lookup of the polling stations an entry
\* that was cached under the state and the group name asked for, whether
\* the entry is found under the exact key or by the fallback scan.
C32_Scoped ==
    /\ (pgLast.op = "get" /\ pgLast.k # 0)
          => pgCache[pgLast.k].state = pgLast.state
    /\ (psLast.op = "get" /\ psLast.k # 0)
          => /\ psCache[psLast.k].state = psLast.state
             /\ psCache[psLast.k].groupName = psLast.groupName

\* a fallback lookup of the stations returned an entry while an entry of
\* another state and an entry of another group would have matched by name
C32_FoundAmongOthers ==
    /\ psLast.op = "get" /\ psLast.k # 0
    /\ psCache[psLast.k].acIdentifier # psLast.acIdentifier
    /\ \E j \in 1..Len(psCache) :
          /\ j < psLast.k
          /\ \/ psCache[j].state # psLast.state
             \/ psCache[j].groupName # psLast.groupName
          /\ fallbackMatch(psCache[j], normalizedName(psLast.acIdentifier))

(***************************************************************************)
(* Properties of the state selection of the provisioning run.              *)
(***************************************************************************)
\* the states named by the surveys (survey.acAssignmentState)
NamedStates(surveys) ==
    {surveys[k].state : k \in 1..Len(surveys)} \ {"none"}

\* C33: when a run has loaded the bundled ACs and saved them, the all-ACs
\* cache holds a list for every state that a survey of the run names, and
\* for 'West Bengal' when no survey names a state.
C33_EveryStateWarmed ==
    [][\A p \in Callers :
          (/\ run[p].pc = "bundled"
           /\ run'[p].pc # "bundled"
           /\ "saveAllACs" \in run'[p].eff)
             => LET named == NamedStates(run[p].inp.surveys)
                IN  /\ \A s \in named : acCache'.states[s].kind = "list"
                    /\ named = {} => acCache'.states["West Bengal"].kind = "list"]_vars

(***************************************************************************)
(* Properties of saveSurveys with the download of the dependent data.      *)
(***************************************************************************)
\* the call of p settles in this step
SettlesNow(p) == sc[p].pc # "idle" /\ sc'[p].pc = "idle"

\* the two writes of the call of p have succeeded
BothWritten(p) == sc[p].pc = "provisioning" \/ (sc[p].pc = "time" /\ sc'[p].out = "resolved")

\* the flag part of C34: after a call has settled the flag is false unless
\* another call is running the provisioning, and a call that skipped the
\* provisioning leaves the flag of the running call set
FlagKept(p) ==
    /\ isDownloadingDependentData' =
          (\E q \in SurveyCallers \ {p} : sc'[q].pc = "provisioning")
    /\ sc'[p].prov = "skipped"
          => /\ isDownloadingDependentData'
             /\ \E q \in SurveyCallers \ {p} : sc'[q].pc = "provisioning"

\* C34 as stated: a saveSurveys(L, true) call whose two writes succeeded
\* resolves with L persisted, whether the provisioning ran, threw or was
\* skipped, and the flag is as FlagKept says.
C34_SavedWhateverProvisioning ==
    [][\A p \in SurveyCallers :
          (SettlesNow(p) /\ sc[p].dl /\ BothWritten(p))
             => /\ sc'[p].out = "resolved"
                /\ getSurveys(offlineSurveys') = sc[p].list
                /\ FlagKept(p)]_vars

\* C34, amended: the same, L being persisted unless another saveSurveys
\* call has written its own list after the call wrote L.
C34_SavedUnlessOverwritten ==
    [][\A p \in SurveyCallers :
          (SettlesNow(p) /\ sc[p].dl /\ BothWritten(p))
             => /\ sc'[p].out = "resolved"
                /\ sc[p].over \/ getSurveys(offlineSurveys') = sc[p].list
                /\ FlagKept(p)]_vars

\* a call whose provisioning threw has resolved while the other call, which
\* skipped the provisioning, has resolved as well
C34_ThrewAndSkipped ==
    /\ sc["login"].out = "resolved" /\ sc["login"].prov = "threw"
    /\ sc["refresh"].out = "resolved" /\ sc["refresh"].prov = "skipped"
    /\ sc["login"].pc = "idle" /\ sc["refresh"].pc = "idle"
    /\ ~isDownloadingDependentData

(***************************************************************************)
(* Properties of the two clearing functions.                               *)
(***************************************************************************)
\* the reference caches hold nothing
CachesCleared ==
    /\ acCache = EmptyACCache /\ pgCache = <<>> /\ psCache = <<>>
    /\ \A k \in OtherKeys \ {"last_sync", "survey_download_time"} : ~keys[k]

\* the surveys, the interviews, the sync queue and the timestamps are gone
OfflineDataCleared ==
    /\ offlineSurveys = NoData /\ store = NoData /\ syncQueue = NoData
    /\ ~keys["last_sync"] /\ ~keys["survey_download_time"]

CachesUnchanged ==
    /\ UNCHANGED <<acCache, pgCache, psCache>>
    /\ \A k \in OtherKeys \ {"last_sync", "survey_download_time"} :
          keys'[k] = keys[k]

OfflineDataUnchanged ==
    /\ UNCHANGED <<offlineSurveys, store, syncQueue>>
    /\ keys'["last_sync"] = keys["last_sync"]
    /\ keys'["survey_download_time"] = keys["survey_download_time"]

\* C35: a call of a clearing function that removes something either empties
\* the eight reference caches and leaves the surveys, the interviews, the
\* sync queue and the two timestamps as they were, or empties these five
\* and leaves every reference cache as it was.
C35_OneFamilyCleared ==
    [][\/ CachesCleared' /\ OfflineDataUnchanged
       \/ OfflineDataCleared' /\ CachesUnchanged]_vars

\* the reference caches have been cleared while surveys, interviews, queue
\* and timestamps are stored
C35_CachesGoneDataKept ==
    /\ CachesCleared
    /\ offlineSurveys.has /\ store.has /\ syncQueue.has
    /\ keys["last_sync"] /\ keys["survey_download_time"]

(***************************************************************************)
(* Properties of removeFromSyncQueue.                                      *)
(***************************************************************************)
\* the positions of the queue that hold an item of the interview
PositionsOf(queue, interviewId) ==
    {k \in 1..Len(queue) : queue[k].interviewId = interviewId}

IdSequence(interviews) == [k \in 1..Len(interviews) |-> interviews[k].id]

\* every entry of the collection is a record with an id
AllRecords(interviews) ==
    \A k \in 1..Len(interviews) : interviews[k].obj /\ interviews[k].id # NoId

\* the persisted collection holds at most one record per id
C37_IdsUnique == NoDuplicateIds(store.list)

\* C37: with calls made one after another the persisted collection holds at
\* most one record per id, and a successful save of an id that is stored
\* leaves the number and the order of the records as they were.
C37_UniqueInPlace ==
    [][/\ NoDuplicateIds(store'.list)
       /\ (/\ last'.op = "save" /\ last'.out = "ok"
           /\ AllRecords(store.list)
           /\ findIndex(store.list, last'.id) > 0)
             => IdSequence(store'.list) = IdSequence(store.list)]_vars

(***************************************************************************)
(* Properties of the quality-verification form.                            *)
(***************************************************************************)
\* an answer that rejects is selected: audioStatus outside 1, 4 and 7,
\* gender 2 or 3, or one of the five matching answers 2 or 4
RejectionSelected(form) ==
    \/ form.audioStatus \notin {"1", "4", "7"}
    \/ form.genderMatching \in {"2", "3"}
    \/ \E f \in {"upcomingElectionsMatching", "previousElectionsMatching",
                 "previousLoksabhaElectionsMatching", "nameMatching",
                 "ageMatching"} : form[f] \in {"2", "4"}

\* C38: a form with a rejecting answer is never handed to onSubmit as
\* 'approved': getApprovalStatus is 'rejected' whenever hasRejectionOption
\* holds, and onSubmit is called only with a valid form.
C38_NeverApproved ==
    /\ hasRejectionOption(verificationForm)
          => getApprovalStatus(verificationForm, interviewProp) = "rejected"
    /\ submitted.called
          => /\ isVerificationFormValid(verificationForm, interviewProp)
             /\ RejectionSelected(verificationForm)
                   => submitted.status = "rejected"

\* a form was submitted whose only rejecting answer belongs to a question
\* that is not shown (gender 'Not Matched' under audio status 4)
C38_HiddenRejectionSubmitted ==
    /\ submitted.called /\ submitted.status = "rejected"
    /\ verificationForm.audioStatus = "4"
    /\ verificationForm.genderMatching = "2"
    /\ getApprovalStatusByQuestions(verificationForm, interviewProp) = "approved"

====
